---- MODULE Spec2Model ----
(***************************************************************************)
(* State-machine model of the authentication / authorization core of the   *)
(* FastAPI backend: bearer-token codec (app/core/security.py), identity    *)
(* resolution providers (app/api/deps.py), and the route handlers that     *)
(* rely on them (app/api/routes/*.py) over the user and item tables        *)
(* (app/crud/*.py, app/models.py).                                         *)
(*                                                                         *)
(* A request is processed in steps: it arrives and its dependency          *)
(* providers run (CurrentUserProvider, ActiveSuperuserProvider,            *)
(* OptionalCurrentUserProvider), then the handler body runs, one step per  *)
(* awaited store operation, then the response is sent.  Time is counted    *)
(* in ticks, TicksPerSecond ticks to the second, because a JWT carries its *)
(* expiration in whole seconds while the clock does not.                   *)
(***************************************************************************)
EXTENDS Integers, FiniteSets, Sequences, TLC

\* ------------------------------------------------------------------ bounds
\* Principal ids (stand-ins for UUIDs) are 1..MaxUsers, item ids 1..MaxItems.
MaxUsers == 2
MaxItems == 1
\* The clock runs from 0 to MaxTime ticks.
MaxTime == 3
\* Sub-second resolution of the clock.
TicksPerSecond == 2

UserIds == 1..MaxUsers
ItemIds == 1..MaxItems
\* One mailbox per principal id, so that every principal can have its own.
Email(i) == ToString(i) \o "@x.io"
Emails == {Email(i) : i \in UserIds}
Passwords == {"pw-one", "pw-two"}
Titles == {"t1", "t2"}
\* Lifetimes (in ticks) a caller of create_access_token may ask for.
Ttls == {0 - 1, 0, TicksPerSecond}
\* The request slots; the sequential specification uses the first only.
Reqs == {1, 2}

\* Settings.ACCESS_TOKEN_EXPIRE_MINUTES, 8 days in minutes.
ACCESS_TOKEN_EXPIRE_MINUTES == 11520
SecondsPerMinute == 60
\* Settings.EMAIL_RESET_TOKEN_EXPIRE_HOURS.
EMAIL_RESET_TOKEN_EXPIRE_HOURS == 48
SecondsPerHour == 3600

VARIABLES
    users,      \* the user table: UserIds -> row or NoRow
    items,      \* the item table: ItemIds -> row or NoRow
    now,        \* the clock, in ticks
    issued,     \* the token the client holds, with its issue time and ttl
    req         \* the requests in flight, one record per slot

vars == <<users, items, now, issued, req>>

\* ------------------------------------------------------------ data model
NoRow == [absent |-> TRUE]
None == [none |-> TRUE]

\* models.User: the row of the user table.
User(id, email, active, super, hashed) ==
    [id |-> id, email |-> email, is_active |-> active, is_superuser |-> super,
     hashed_password |-> hashed]

\* models.Item: the row of the item table.
Item(id, owner, title) == [id |-> id, owner_id |-> owner, title |-> title]

\* SecurityManager.get_password_hash: a one-way digest of the plaintext.
get_password_hash(password) == [bcrypt |-> password]

\* SecurityManager.verify_password.
verify_password(plain_password, hashed_password) ==
    hashed_password = get_password_hash(plain_password)

\* ---------------------------------------------------------- token codec
\* Strings that appear as the "sub" claim.  str(uuid) of a principal id, an
\* email address, or no claim at all.
UuidStr(id) == [form |-> "uuid", uuid |-> id, text |-> ""]
EmailSub(email) == [form |-> "text", uuid |-> 0, text |-> email]
NoSub == [form |-> "absent", uuid |-> 0, text |-> ""]

\* The raw credential of a request.
NoToken == [kind |-> "none"]
Garbage == [kind |-> "garbage"]
Jwt(sig, sub, exp) == [kind |-> "jwt", sig |-> sig, sub |-> sub, exp |-> exp]

\* A clock reading cut to whole seconds (in ticks): jwt.encode writes a
\* datetime "exp" as NumericDate seconds, dropping the fraction.
Seconds(ticks) == (ticks \div TicksPerSecond) * TicksPerSecond

\* create_access_token that forgets the lifetime asked for.
create_access_token_now(subject, expires_delta, t) ==
    Jwt("ok", subject, Seconds(t))

\* SecurityManager.create_access_token at clock reading t.
create_access_token(subject, expires_delta, t) ==
    Jwt("ok", subject, Seconds(t + expires_delta))

\* timedelta(hours=settings.EMAIL_RESET_TOKEN_EXPIRE_HOURS), in ticks.
ResetTtl == EMAIL_RESET_TOKEN_EXPIRE_HOURS * SecondsPerHour * TicksPerSecond

\* EmailManager.generate_password_reset_token at clock reading t.  "exp" is
\* given as a float timestamp and keeps its fraction; "nbf" is the issue time
\* cut to whole seconds, which no later clock reading precedes.
generate_password_reset_token(email, t) == Jwt("ok", EmailSub(email), t + ResetTtl)

\* A token whose signature no longer matches its content.
Tamper(token) == [token EXCEPT !.sig = "bad"]

\* jwt.decode(token, SECRET_KEY, algorithms=[HS256]) at clock reading t:
\* the payload, or InvalidTokenError.
InvalidTokenError == [error |-> "InvalidTokenError"]

\* jwt.decode that lets a token through at the very instant it expires.
jwt_decode_late(token, t) ==
    IF token.kind # "jwt" THEN InvalidTokenError
    ELSE IF token.sig # "ok" THEN InvalidTokenError
    ELSE IF Seconds(token.exp) < t THEN InvalidTokenError
    ELSE [sub |-> token.sub, exp |-> token.exp]

\* jwt.decode that does not verify the signature.
jwt_decode_unverified(token, t) ==
    IF token.kind # "jwt" THEN InvalidTokenError
    ELSE IF Seconds(token.exp) <= t THEN InvalidTokenError
    ELSE [sub |-> token.sub, exp |-> token.exp]

\* "exp" is read as int(payload["exp"]), which drops the fraction of a float,
\* and the token is refused once that whole second is reached.
jwt_decode(token, t) ==
    IF token.kind # "jwt" THEN InvalidTokenError
    ELSE IF token.sig # "ok" THEN InvalidTokenError
    ELSE IF Seconds(token.exp) <= t THEN InvalidTokenError
    ELSE [sub |-> token.sub, exp |-> token.exp]

\* The string str(payload["sub"]) of a subject claim.
SubText(sub) == IF sub.form = "text" THEN sub.text ELSE "uuid-" \o ToString(sub.uuid)

\* ------------------------------------------------------------- responses
Resp(status, detail, body) == [status |-> status, detail |-> detail, body |-> body]

\* fastapi.HTTPException(status_code, detail) as the response it becomes.
HTTPException(status, detail) == Resp(status, detail, None)

\* An exception no handler catches: the server answers 500.
Unhandled(exc) == Resp(500, exc, None)

\* The outcome of a dependency provider: a value, or a raised exception.
Returns(value, lookups) == [raises |-> FALSE, value |-> value, lookups |-> lookups]
Raises(exc, lookups) == [raises |-> TRUE, exc |-> exc, lookups |-> lookups]

\* UserCRUD.get_by_id on table tbl.
\* verify_password_reset_token that does not look at the expiry.
verify_password_reset_token_lenient(token, t) ==
    IF token.kind # "jwt" THEN Returns(None, 0)
    ELSE IF token.sig # "ok" THEN Returns(None, 0)
    ELSE IF token.sub = NoSub THEN Raises(Unhandled("KeyError"), 0)
    ELSE Returns([email |-> SubText(token.sub)], 0)

\* EmailManager.verify_password_reset_token at clock reading t: the subject
\* as a string (held in a record, [email |-> string], to tell it from None),
\* None when jwt.decode raises InvalidTokenError; a payload without "sub"
\* raises KeyError, which is not caught.
verify_password_reset_token(token, t) ==
    LET decoded_token == jwt_decode(token, t) IN
    IF decoded_token = InvalidTokenError THEN Returns(None, 0)
    ELSE IF decoded_token.sub = NoSub THEN Raises(Unhandled("KeyError"), 0)
    ELSE Returns([email |-> SubText(decoded_token.sub)], 0)

get_by_id(tbl, user_id) == IF tbl[user_id] = NoRow THEN None ELSE tbl[user_id]

\* UserCRUD.get_by_email on table tbl (result.first(): some matching row).
\* A lookup by email that finds nobody.
get_by_email_blind(tbl, email) == None

MatchingIds(tbl, email) == {i \in UserIds : tbl[i] # NoRow /\ tbl[i].email = email}
get_by_email(tbl, email) ==
    IF MatchingIds(tbl, email) = {} THEN None
    ELSE tbl[CHOOSE i \in MatchingIds(tbl, email) : \A j \in MatchingIds(tbl, email) : i <= j]

\* --------------------------------------------------- dependency providers
\* OAuth2PasswordBearer(tokenUrl) with auto_error left on: no credential is 401.
StrictTokenDep(token) ==
    IF token = NoToken THEN Raises(HTTPException(401, "Not authenticated"), 0)
    ELSE Returns(token, 0)

\* CurrentUserProvider.__call__ that goes to the store before it has parsed
\* the subject claim.
CurrentUserProviderCall_unordered(token, t, tbl) ==
    LET payload == jwt_decode(token, t) IN
    IF payload = InvalidTokenError
    THEN Raises(HTTPException(403, "Could not validate credentials"), 0)
    ELSE IF payload.sub = NoSub
    THEN Raises(Unhandled("KeyError"), 0)
    ELSE LET user == IF payload.sub.form = "uuid" THEN get_by_id(tbl, payload.sub.uuid)
                     ELSE None
         IN IF user # None /\ ~user.is_active
            THEN Raises(HTTPException(400, "Inactive user"), 1)
            ELSE IF user = None THEN Raises(HTTPException(404, "User not found"), 1)
            ELSE Returns(user, 1)

\* CurrentUserProvider.__call__ that ties a token to the credential it was
\* obtained with: a principal whose hash is no longer the one it was created
\* with is refused.
CurrentUserProviderCall_pinned(token, t, tbl) ==
    LET payload == jwt_decode(token, t) IN
    IF payload = InvalidTokenError
    THEN Raises(HTTPException(403, "Could not validate credentials"), 0)
    ELSE IF payload.sub = NoSub
    THEN Raises(Unhandled("KeyError"), 0)
    ELSE IF payload.sub.form # "uuid"
    THEN Raises(HTTPException(403, "Could not validate credentials"), 0)
    ELSE LET user == get_by_id(tbl, payload.sub.uuid) IN
         IF user = None THEN Raises(HTTPException(404, "User not found"), 1)
         ELSE IF ~user.is_active THEN Raises(HTTPException(400, "Inactive user"), 1)
         ELSE IF user.hashed_password
                   # get_password_hash(IF user.is_superuser THEN "pw-one" ELSE "pw-two")
         THEN Raises(HTTPException(403, "Could not validate credentials"), 1)
         ELSE Returns(user, 1)

\* CurrentUserProvider.__call__ at clock reading t over user table tbl.
\* The strict provider resolving an email subject by email.
CurrentUserProviderCall_by_email(token, t, tbl) ==
    LET payload == jwt_decode(token, t) IN
    IF payload = InvalidTokenError
    THEN Raises(HTTPException(403, "Could not validate credentials"), 0)
    ELSE IF payload.sub = NoSub
    THEN Raises(Unhandled("KeyError"), 0)
    ELSE LET user == IF payload.sub.form = "uuid" THEN get_by_id(tbl, payload.sub.uuid)
                     ELSE get_by_email(tbl, payload.sub.text) IN
         IF user = None THEN Raises(HTTPException(404, "User not found"), 1)
         ELSE IF ~user.is_active THEN Raises(HTTPException(400, "Inactive user"), 1)
         ELSE Returns(user, 1)

CurrentUserProviderCall(token, t, tbl) ==
    LET payload == jwt_decode(token, t) IN
    IF payload = InvalidTokenError
    THEN Raises(HTTPException(403, "Could not validate credentials"), 0)
    ELSE IF payload.sub = NoSub
    THEN Raises(Unhandled("KeyError"), 0)
    ELSE IF payload.sub.form # "uuid"
    THEN Raises(HTTPException(403, "Could not validate credentials"), 0)
    ELSE LET user == get_by_id(tbl, payload.sub.uuid) IN
         IF user = None THEN Raises(HTTPException(404, "User not found"), 1)
         ELSE IF ~user.is_active THEN Raises(HTTPException(400, "Inactive user"), 1)
         ELSE Returns(user, 1)

\* OptionalCurrentUserProvider.__call__ without the activity check.
OptionalCurrentUserProviderCall_any(token, t, tbl) ==
    IF token = NoToken THEN Returns(None, 0)
    ELSE LET payload == jwt_decode(token, t) IN
         IF payload = InvalidTokenError THEN Returns(None, 0)
         ELSE IF payload.sub = NoSub THEN Raises(Unhandled("KeyError"), 0)
         ELSE IF payload.sub.form # "uuid" THEN Returns(None, 0)
         ELSE Returns(get_by_id(tbl, payload.sub.uuid), 1)

\* OptionalCurrentUserProvider.__call__ that asks the store for the first
\* superuser before it looks at the token.
OptionalCurrentUserProviderCall_eager(token, t, tbl) ==
    IF token = NoToken THEN Returns(None, 1)
    ELSE LET payload == jwt_decode(token, t) IN
         IF payload = InvalidTokenError THEN Returns(None, 1)
         ELSE IF payload.sub = NoSub THEN Raises(Unhandled("KeyError"), 1)
         ELSE IF payload.sub.form # "uuid" THEN Returns(None, 1)
         ELSE LET user == get_by_id(tbl, payload.sub.uuid) IN
              IF user # None /\ ~user.is_active THEN Returns(None, 2)
              ELSE Returns(user, 2)

\* OptionalCurrentUserProvider.__call__ at clock reading t over user table tbl.
OptionalCurrentUserProviderCall(token, t, tbl) ==
    IF token = NoToken THEN Returns(None, 0)
    ELSE LET payload == jwt_decode(token, t) IN
         IF payload = InvalidTokenError THEN Returns(None, 0)
         ELSE IF payload.sub = NoSub THEN Raises(Unhandled("KeyError"), 0)
         ELSE IF payload.sub.form # "uuid" THEN Returns(None, 0)
         ELSE LET user == get_by_id(tbl, payload.sub.uuid) IN
              IF user # None /\ ~user.is_active THEN Returns(None, 1)
              ELSE Returns(user, 1)

\* ActiveSuperuserProvider.__call__ that lets every principal through.
ActiveSuperuserProviderCall_open(current_user) == Returns(current_user, 0)

\* ActiveSuperuserProvider.__call__ on the principal CurrentUserProvider gave.
ActiveSuperuserProviderCall(current_user) ==
    IF ~current_user.is_superuser
    THEN Raises(HTTPException(403, "The user doesn't have enough privileges"), 0)
    ELSE Returns(current_user, 0)

\* The CurrentUser dependency: the strict scheme, then CurrentUserProvider.
CurrentUser(token, t, tbl) ==
    IF StrictTokenDep(token).raises THEN StrictTokenDep(token)
    ELSE CurrentUserProviderCall(token, t, tbl)

\* The CurrentSuperuser dependency: CurrentUser, then ActiveSuperuserProvider.
CurrentSuperuser(token, t, tbl) ==
    LET first == CurrentUser(token, t, tbl) IN
    IF first.raises THEN first
    ELSE LET second == ActiveSuperuserProviderCall(first.value) IN
         IF second.raises THEN Raises(second.exc, first.lookups)
         ELSE Returns(second.value, first.lookups)

\* ------------------------------------------------------------- requests
\* Settings.ENVIRONMENT of the deployment modelled: not "local", so the
\* private router is not mounted.
ENVIRONMENT == "production"

\* Settings.emails_enabled: SMTP_HOST and EMAILS_FROM_EMAIL are configured.
emails_enabled == TRUE

\* The endpoints whose first dependency is the bearer token: their router
\* class has no constructor dependency, so a request without a token is
\* answered 401 before SessionDep is resolved. Every other endpoint resolves
\* UserCRUDDep or ItemCRUDDep, and with it SessionDep, first.
TokenFirstOps == {"test_token", "test_email", "recover_password_html_content"}

\* The calls of DatabaseManager.get_session one request makes: one by
\* DbSessionMiddleware.dispatch, and one by SessionDep (cached for the
\* request) when dependency resolution gets to it.
get_session_calls(op, token) == IF op \in TokenFirstOps /\ token = NoToken THEN 1 ELSE 2

\* A request slot: where the request stands (pc), its endpoint, credential
\* and input, the principal its dependencies resolved (cur), the handler's
\* local (tmp), its response, and what it did so far: sessions obtained
\* from the database manager, reads of the user table by the identity
\* provider (lookups), committed writes, and the background tasks it
\* scheduled.
Idle ==
    [pc |-> "idle", op |-> "none", token |-> NoToken, arg |-> None, cur |-> None,
     resp |-> None, sessions |-> 0, lookups |-> 0, writes |-> 0, tasks |-> {},
     tmp |-> None]

\* A request whose dependencies resolved: the handler body is next.
Admitted(op, token, out) ==
    [Idle EXCEPT !.pc = "body", !.op = op, !.token = token,
                 !.cur = out.value, !.lookups = out.lookups,
                 !.sessions = get_session_calls(op, token)]

\* A request whose handler body runs although a dependency raised.
Rejected_ignored(op, token, out) ==
    [Idle EXCEPT !.pc = "body", !.op = op, !.token = token,
                 !.cur = [id |-> 1, is_superuser |-> TRUE], !.lookups = out.lookups,
                 !.sessions = get_session_calls(op, token)]

\* A request answered by a dependency's exception: the body never runs.
Rejected(op, token, out) ==
    [Idle EXCEPT !.pc = "done", !.op = op, !.token = token,
                 !.resp = out.exc, !.lookups = out.lookups,
                 !.sessions = get_session_calls(op, token)]

Dispatch(op, token, out) ==
    IF out.raises THEN Rejected(op, token, out) ELSE Admitted(op, token, out)

\* The handler of slot r returns (or raises): the response is decided.
Finish(r, a, resp) == [req EXCEPT ![r].pc = "done", ![r].arg = a, ![r].resp = resp]

\* The handler of slot r goes on to its next await.
Step(r, a, pc, tmp) == [req EXCEPT ![r].pc = pc, ![r].arg = a, ![r].tmp = tmp]

Wrote(rq) == [rq EXCEPT !.writes = @ + 1]
Scheduled(rq, task) == [rq EXCEPT !.tasks = @ \cup {task}]

InBody(r, op) == req[r].pc = "body" /\ req[r].op = op

\* Credentials a client can present: none, junk, a token it holds, such a
\* token altered in transit, or a token signed with SECRET_KEY that carries
\* no "sub" claim.
ForeignNoSub == Jwt("ok", NoSub, MaxTime + 1)
Presentable ==
    {NoToken, Garbage, ForeignNoSub}
        \cup {t.jwt : t \in issued} \cup {Tamper(t.jwt) : t \in issued}

StrictOps ==
    {"test_token", "read_user_me", "update_user_me", "update_password_me",
     "delete_user_me", "read_user_by_id"}
SuperuserOps ==
    {"read_users", "create_user", "update_user", "delete_user", "test_email",
     "recover_password_html_content"}
OptionalOps == {"read_items", "create_item", "read_item", "update_item", "delete_item"}
PublicOps == {"login_access_token", "register_user", "recover_password", "reset_password"}

\* A request to an endpoint that depends on CurrentUser arrives.
StrictRequest(r, op, token) ==
    /\ req[r].pc = "idle"
    /\ op \in StrictOps
    /\ req' = [req EXCEPT ![r] = Dispatch(op, token, CurrentUser(token, now, users))]
    /\ UNCHANGED <<users, items, now, issued>>

\* A request to an endpoint that depends on CurrentSuperuser arrives.
SuperuserRequest(r, op, token) ==
    /\ req[r].pc = "idle"
    /\ op \in SuperuserOps
    /\ req' = [req EXCEPT ![r] = Dispatch(op, token, CurrentSuperuser(token, now, users))]
    /\ UNCHANGED <<users, items, now, issued>>

\* A request to an items endpoint arrives (ItemsRouter.__init__).
OptionalRequest(r, op, token) ==
    /\ req[r].pc = "idle"
    /\ op \in OptionalOps
    /\ req' = [req EXCEPT ![r] =
                  Dispatch(op, token, OptionalCurrentUserProviderCall(token, now, users))]
    /\ UNCHANGED <<users, items, now, issued>>

\* A request to an endpoint without an identity dependency arrives.
PublicRequest(r, op) ==
    /\ req[r].pc = "idle"
    /\ op \in PublicOps
    /\ req' = [req EXCEPT ![r] = Admitted(op, NoToken, Returns(None, 0))]
    /\ UNCHANGED <<users, items, now, issued>>

\* The response of slot r is sent and the request ends; its background
\* tasks run after that.
Close(r) ==
    /\ req[r].pc = "done"
    /\ req' = [req EXCEPT ![r] = Idle]
    /\ UNCHANGED <<users, items, now, issued>>

\* ------------------------------------------------------- clock and tokens
Tick ==
    /\ now < MaxTime
    /\ now' = now + 1
    /\ UNCHANGED <<users, items, issued, req>>

\* The clock reading one second short of the reset token lifetime.
Late == ResetTtl - TicksPerSecond

\* Time passes until the reset token lifetime is nearly over.
Sleep ==
    /\ now <= MaxTime
    /\ now' = now + Late
    /\ UNCHANGED <<users, items, issued, req>>

\* The clock goes on around the end of the reset token lifetime.
TickLate ==
    /\ now >= Late
    /\ now < ResetTtl + MaxTime + TicksPerSecond
    /\ now' = now + 1
    /\ UNCHANGED <<users, items, issued, req>>

\* The client keeps the token it was given last.
Issue(token, ttl) == {[jwt |-> token, iat |-> now, ttl |-> ttl]}

\* SecurityManager.create_access_token called with any subject and lifetime.
IssueToken(subject, ttl) ==
    /\ issued' = Issue(create_access_token(subject, ttl, now), ttl)
    /\ UNCHANGED <<users, items, now, req>>

\* ------------------------------------------------------------ login routes
\* UserCRUD.authenticate without the password check.
authenticate_any(tbl, email, password) == get_by_email(tbl, email)

\* The calls of verify_password UserCRUD.authenticate makes: none when no
\* row has the email, else one.
verifications(tbl, email) == IF get_by_email(tbl, email) = None THEN 0 ELSE 1

\* UserCRUD.authenticate.
authenticate(tbl, email, password) ==
    LET db_user == get_by_email(tbl, email) IN
    IF db_user = None THEN None
    ELSE IF ~verify_password(password, db_user.hashed_password) THEN None
    ELSE db_user

\* timedelta(minutes=settings.ACCESS_TOKEN_EXPIRE_MINUTES), in ticks.
AccessTtl == ACCESS_TOKEN_EXPIRE_MINUTES * SecondsPerMinute * TicksPerSecond

\* LoginRouter.login_access_token with form data a.
login_access_token(r, a) ==
    /\ InBody(r, "login_access_token")
    /\ LET user == authenticate(users, a.username, a.password)
           token == create_access_token(UuidStr(user.id), AccessTtl, now)
           calls == [verifications |-> verifications(users, a.username)]
       IN IF user = None
          THEN /\ req' = [Finish(r, a, HTTPException(400, "Incorrect email or password"))
                             EXCEPT ![r].tmp = calls]
               /\ UNCHANGED issued
          ELSE IF ~user.is_active
          THEN /\ req' = [Finish(r, a, HTTPException(400, "Inactive user"))
                             EXCEPT ![r].tmp = calls]
               /\ UNCHANGED issued
          ELSE /\ req' = [Finish(r, a, Resp(200, "", [access_token |-> token]))
                             EXCEPT ![r].tmp = calls]
               /\ issued' = Issue(token, AccessTtl)
    /\ UNCHANGED <<users, items, now>>

\* LoginRouter.recover_password with path parameter a.email.
recover_password(r, a) ==
    /\ InBody(r, "recover_password")
    /\ req' = IF get_by_email(users, a.email) = None
              THEN Finish(r, a, HTTPException(404,
                       "The user with this email does not exist in the system."))
              ELSE [Finish(r, a, Resp(200, "Password recovery email sent", None))
                       EXCEPT ![r] = Scheduled(@, [task |-> "reset_password", to |-> a.email])]
    /\ UNCHANGED <<users, items, now, issued>>

\* EmailManager.send_reset_password_email, the background task of
\* recover_password: once the response is out, a token is generated and
\* mailed; the client holds it from then on.
send_reset_password_email(r) ==
    /\ req[r].pc = "done"
    /\ \E task \in req[r].tasks :
          /\ task.task = "reset_password"
          /\ issued' = Issue(generate_password_reset_token(task.to, now), ResetTtl)
    /\ req' = [req EXCEPT ![r] = Idle]
    /\ UNCHANGED <<users, items, now>>

\* LoginRouter.reset_password without the is_active check.
reset_password_any_user(r, a) ==
    /\ InBody(r, "reset_password")
    /\ LET out == verify_password_reset_token(a.token, now)
           email == out.value
           user == get_by_email(users, email.email)
       IN req' = IF out.raises THEN Finish(r, a, out.exc)
                 ELSE IF email = None THEN Finish(r, a, HTTPException(400, "Invalid token"))
                 ELSE IF user = None
                 THEN Finish(r, a, HTTPException(404,
                          "The user with this email does not exist in the system."))
                 ELSE Step(r, a, "reset_update", user)
    /\ UNCHANGED <<users, items, now, issued>>

\* LoginRouter.reset_password with body a, up to its first await:
\* verify_password_reset_token, then get_by_email.
reset_password(r, a) ==
    /\ InBody(r, "reset_password")
    /\ LET out == verify_password_reset_token(a.token, now)
           email == out.value
           user == get_by_email(users, email.email)
       IN req' = IF out.raises THEN Finish(r, a, out.exc)
                 ELSE IF email = None THEN Finish(r, a, HTTPException(400, "Invalid token"))
                 ELSE IF user = None
                 THEN Finish(r, a, HTTPException(404,
                          "The user with this email does not exist in the system."))
                 ELSE IF ~user.is_active
                 THEN Finish(r, a, HTTPException(400, "Inactive user"))
                 ELSE Step(r, a, "reset_update", user)
    /\ UNCHANGED <<users, items, now, issued>>

\* LoginRouter.recover_password_html_content with path parameter a.email.
recover_password_html_content(r, a) ==
    /\ InBody(r, "recover_password_html_content")
    /\ req' = Finish(r, a, Resp(200, "", [username |-> a.email,
                       token |-> generate_password_reset_token(a.email, now)]))
    /\ UNCHANGED <<users, items, now, issued>>

\* LoginRouter.test_token.
test_token(r) ==
    /\ InBody(r, "test_token")
    /\ req' = Finish(r, None, Resp(200, "", req[r].cur))
    /\ UNCHANGED <<users, items, now, issued>>

\* ------------------------------------------------------------- item CRUD
\* ItemCRUD.get.
item_get(itbl, item_id) == IF itbl[item_id] = NoRow THEN None ELSE itbl[item_id]

\* ItemCRUD.get_multi: every stored item, with the count.
get_multi(itbl) ==
    LET data == {itbl[i] : i \in {j \in ItemIds : itbl[j] # NoRow}}
    IN [data |-> data, count |-> Cardinality(data)]

\* ItemCRUD.get_multi_by_owner: the stored items of one owner, with the count.
get_multi_by_owner(itbl, owner_id) ==
    LET data == {itbl[i] : i \in {j \in ItemIds : itbl[j] # NoRow /\ itbl[j].owner_id = owner_id}}
    IN [data |-> data, count |-> Cardinality(data)]

\* A remove_by_owner that deletes nothing.
remove_by_owner_none(itbl, owner_id) == itbl

\* ItemCRUD.remove_by_owner: DELETE FROM item WHERE owner_id = :owner_id.
remove_by_owner(itbl, owner_id) ==
    [i \in ItemIds |-> IF itbl[i] # NoRow /\ itbl[i].owner_id = owner_id THEN NoRow ELSE itbl[i]]

\* ItemCRUD.remove.
item_remove(itbl, item_id) == [itbl EXCEPT ![item_id] = NoRow]

\* ---------------------------------------------------------- items routes
\* ItemsRouter._get_and_validate_item without the ownership check.
get_and_validate_item_any(current_user, itbl, item_id) ==
    IF current_user = None THEN Raises(HTTPException(401, "Not authenticated"), 0)
    ELSE LET db_item == item_get(itbl, item_id) IN
         IF db_item = None THEN Raises(HTTPException(404, "Item not found"), 0)
         ELSE Returns(db_item, 0)

\* ItemsRouter._get_and_validate_item.
\* The checks with the item lookup ahead of the caller check.
get_and_validate_item_lookup_first(current_user, itbl, item_id) ==
    LET db_item == item_get(itbl, item_id) IN
    IF db_item = None THEN Raises(HTTPException(404, "Item not found"), 0)
    ELSE IF current_user = None THEN Raises(HTTPException(401, "Not authenticated"), 0)
    ELSE IF ~current_user.is_superuser /\ db_item.owner_id # current_user.id
    THEN Raises(HTTPException(403, "Not enough permissions"), 0)
    ELSE Returns(db_item, 0)

get_and_validate_item(current_user, itbl, item_id) ==
    IF current_user = None THEN Raises(HTTPException(401, "Not authenticated"), 0)
    ELSE LET db_item == item_get(itbl, item_id) IN
         IF db_item = None THEN Raises(HTTPException(404, "Item not found"), 0)
         ELSE IF ~current_user.is_superuser /\ db_item.owner_id # current_user.id
         THEN Raises(HTTPException(403, "Not enough permissions"), 0)
         ELSE Returns(db_item, 0)

\* read_items that shows every caller with an identity the items of all owners.
items_for_everyone(current_user, itbl) ==
    IF current_user = None THEN [data |-> {}, count |-> 0] ELSE get_multi(itbl)

\* The statements ItemsRouter.read_items sends to the store: none for a
\* caller without identity, else the count and the select.
item_queries(current_user) == IF current_user = None THEN 0 ELSE 2

\* What ItemsRouter.read_items answers to current_user over item table itbl.
items_for(current_user, itbl) ==
    IF current_user = None THEN [data |-> {}, count |-> 0]
    ELSE IF current_user.is_superuser THEN get_multi(itbl)
    ELSE get_multi_by_owner(itbl, current_user.id)

\* ItemsRouter.read_items.
read_items(r) ==
    /\ InBody(r, "read_items")
    /\ req' = [Finish(r, None, Resp(200, "", items_for(req[r].cur, items)))
                  EXCEPT ![r].tmp = [queries |-> item_queries(req[r].cur)]]
    /\ UNCHANGED <<users, items, now, issued>>

\* ItemsRouter.create_item with body a (ItemCRUD.create_with_owner under the
\* foreign key item.owner_id -> user.id).
\* create_item on a table whose owner_id has no foreign key to user.id.
create_item_no_foreign_key(r, a) ==
    /\ InBody(r, "create_item")
    /\ LET cur == req[r].cur IN
       IF cur = None
       THEN /\ req' = Finish(r, a, HTTPException(401, "Not authenticated"))
            /\ UNCHANGED items
       ELSE \E id \in ItemIds :
            /\ items[id] = NoRow
            /\ items' = [items EXCEPT ![id] = Item(id, cur.id, a.title)]
            /\ req' = [Finish(r, a, Resp(201, "", items'[id])) EXCEPT ![r] = Wrote(@)]
    /\ UNCHANGED <<users, now, issued>>

create_item(r, a) ==
    /\ InBody(r, "create_item")
    /\ LET cur == req[r].cur IN
       IF cur = None
       THEN /\ req' = Finish(r, a, HTTPException(401, "Not authenticated"))
            /\ UNCHANGED items
       ELSE IF users[cur.id] = NoRow
       THEN /\ req' = Finish(r, a, Unhandled("IntegrityError"))
            /\ UNCHANGED items
       ELSE \E id \in ItemIds :
            /\ items[id] = NoRow
            /\ items' = [items EXCEPT ![id] = Item(id, cur.id, a.title)]
            /\ req' = [Finish(r, a, Resp(201, "", items'[id])) EXCEPT ![r] = Wrote(@)]
    /\ UNCHANGED <<users, now, issued>>

\* ItemsRouter.read_item with path parameter a.id.
read_item(r, a) ==
    /\ InBody(r, "read_item")
    /\ LET out == get_and_validate_item(req[r].cur, items, a.id) IN
       req' = Finish(r, a, IF out.raises THEN out.exc ELSE Resp(200, "", out.value))
    /\ UNCHANGED <<users, items, now, issued>>

\* ItemsRouter.update_item, first await: _get_and_validate_item.
update_item(r, a) ==
    /\ InBody(r, "update_item")
    /\ LET out == get_and_validate_item(req[r].cur, items, a.id) IN
       req' = IF out.raises THEN Finish(r, a, out.exc)
              ELSE Step(r, a, "item_update", out.value)
    /\ UNCHANGED <<users, items, now, issued>>

\* ItemsRouter.update_item, second await: ItemCRUD.update.
update_item_write(r) ==
    /\ req[r].pc = "item_update"
    /\ LET id == req[r].tmp.id
           a == req[r].arg
       IN IF items[id] = NoRow
          THEN /\ req' = Finish(r, a, Unhandled("StaleDataError"))
               /\ UNCHANGED items
          ELSE /\ items' = [items EXCEPT ![id].title = a.title]
               /\ req' = [Finish(r, a, Resp(200, "", items'[id])) EXCEPT ![r] = Wrote(@)]
    /\ UNCHANGED <<users, now, issued>>

\* ItemsRouter.delete_item, first await: _get_and_validate_item.
delete_item(r, a) ==
    /\ InBody(r, "delete_item")
    /\ LET out == get_and_validate_item(req[r].cur, items, a.id) IN
       req' = IF out.raises THEN Finish(r, a, out.exc)
              ELSE Step(r, a, "item_remove", out.value)
    /\ UNCHANGED <<users, items, now, issued>>

\* ItemsRouter.delete_item, second await: ItemCRUD.remove.
delete_item_remove(r) ==
    /\ req[r].pc = "item_remove"
    /\ LET a == req[r].arg
           done == Finish(r, a, Resp(200, "Item deleted successfully", None))
       IN IF items[a.id] = NoRow
          THEN /\ req' = done
               /\ UNCHANGED items
          ELSE /\ items' = item_remove(items, a.id)
               /\ req' = [done EXCEPT ![r] = Wrote(@)]
    /\ UNCHANGED <<users, now, issued>>

\* ------------------------------------------------------------- user CRUD
Has(patch, field) == field \in DOMAIN patch

\* A user table without the unique index on email: every write is accepted.
EmailFree_unindexed(tbl, email, id) == TRUE

\* The unique index on user.email: no row other than id holds this email.
EmailFree(tbl, email, id) ==
    \A i \in UserIds : (i # id /\ tbl[i] # NoRow) => tbl[i].email # email

\* UserCRUD.update that never touches hashed_password.
updated_row_keep_hash(row, patch) ==
    User(row.id,
         IF Has(patch, "email") THEN patch.email ELSE row.email,
         IF Has(patch, "is_active") THEN patch.is_active ELSE row.is_active,
         IF Has(patch, "is_superuser") THEN patch.is_superuser ELSE row.is_superuser,
         row.hashed_password)

\* UserCRUD.update: the row after sqlmodel_update with the fields the client set.
updated_row(row, patch) ==
    User(row.id,
         IF Has(patch, "email") THEN patch.email ELSE row.email,
         IF Has(patch, "is_active") THEN patch.is_active ELSE row.is_active,
         IF Has(patch, "is_superuser") THEN patch.is_superuser ELSE row.is_superuser,
         IF Has(patch, "password") THEN get_password_hash(patch.password)
         ELSE row.hashed_password)

\* UserCRUD.create: the row of a UserCreate body under a fresh id.
created_row(id, user_create) ==
    User(id, user_create.email, user_create.is_active, user_create.is_superuser,
         get_password_hash(user_create.password))

\* UserCRUD.get_multi.  The statement is a sqlmodel select of one entity, so
\* session.exec yields User objects; "for user, in result.all()" unpacks each
\* of them, and iterating a model yields one pair per field, more than the
\* one name to bind: ValueError as soon as there is a row.
users_get_multi(tbl) ==
    LET data == {tbl[i] : i \in {j \in UserIds : tbl[j] # NoRow}}
    IN IF data # {} THEN Raises(Unhandled("ValueError"), 0)
       ELSE Returns([data |-> data, count |-> Cardinality(data)], 0)

\* session.delete(user): with the row go the items of the User.items
\* relationship (cascade_delete).
cascade_items(itbl, user_id) ==
    [i \in ItemIds |-> IF itbl[i] # NoRow /\ itbl[i].owner_id = user_id THEN NoRow ELSE itbl[i]]

\* ---------------------------------------------------------- users routes
\* UsersRouter.read_users.
read_users(r) ==
    /\ InBody(r, "read_users")
    /\ LET out == users_get_multi(users) IN
       req' = Finish(r, None, IF out.raises THEN out.exc ELSE Resp(200, "", out.value))
    /\ UNCHANGED <<users, items, now, issued>>

\* UsersRouter.create_user with body a, first await: get_by_email.
create_user(r, a) ==
    /\ InBody(r, "create_user")
    /\ req' = IF get_by_email(users, a.email) # None
              THEN Finish(r, a, HTTPException(400,
                       "The user with this email already exists in the system."))
              ELSE Step(r, a, "user_create", None)
    /\ UNCHANGED <<users, items, now, issued>>

\* UsersRouter.create_user, second await: UserCRUD.create, then the email task.
create_user_write(r) ==
    /\ req[r].pc = "user_create"
    /\ LET a == req[r].arg IN
       IF ~EmailFree(users, a.email, 0)
       THEN /\ req' = Finish(r, a, Unhandled("IntegrityError"))
            /\ UNCHANGED users
       ELSE \E id \in UserIds :
            /\ users[id] = NoRow
            /\ users' = [users EXCEPT ![id] = created_row(id, a)]
            /\ req' = [Finish(r, a, Resp(201, "", users'[id])) EXCEPT ![r] =
                          IF emails_enabled
                          THEN Scheduled(Wrote(@), [task |-> "new_account", to |-> a.email])
                          ELSE Wrote(@)]
    /\ UNCHANGED <<items, now, issued>>

\* UsersRouter.register_user with body a, first await: get_by_email.
register_user(r, a) ==
    /\ InBody(r, "register_user")
    /\ req' = IF get_by_email(users, a.email) # None
              THEN Finish(r, a, HTTPException(400,
                       "The user with this email already exists in the system"))
              ELSE Step(r, a, "register_create", None)
    /\ UNCHANGED <<users, items, now, issued>>

\* UsersRouter.register_user, second await: UserCRUD.create of the UserCreate
\* made from the body, is_active and is_superuser at their defaults.
register_user_write(r) ==
    /\ req[r].pc = "register_create"
    /\ LET a == req[r].arg
           user_create == [email |-> a.email, password |-> a.password,
                           is_active |-> TRUE, is_superuser |-> FALSE]
       IN IF ~EmailFree(users, a.email, 0)
          THEN /\ req' = Finish(r, a, Unhandled("IntegrityError"))
               /\ UNCHANGED users
          ELSE \E id \in UserIds :
               /\ users[id] = NoRow
               /\ users' = [users EXCEPT ![id] = created_row(id, user_create)]
               /\ req' = [Finish(r, a, Resp(201, "", users'[id])) EXCEPT ![r] = Wrote(@)]
    /\ UNCHANGED <<items, now, issued>>

\* UserCRUD.update of row id as one committed write of slot r, answering 200.
user_update_write(r, pc, id, patch) ==
    /\ req[r].pc = pc
    /\ IF users[id] = NoRow
       THEN /\ req' = Finish(r, req[r].arg, Unhandled("StaleDataError"))
            /\ UNCHANGED users
       ELSE IF ~EmailFree(users, updated_row(users[id], patch).email, id)
       THEN /\ req' = Finish(r, req[r].arg, Unhandled("IntegrityError"))
            /\ UNCHANGED users
       ELSE /\ users' = [users EXCEPT ![id] = updated_row(users[id], patch)]
            /\ req' = [Finish(r, req[r].arg, Resp(200, "", users'[id])) EXCEPT ![r] = Wrote(@)]
    /\ UNCHANGED <<items, now, issued>>

\* UsersRouter.update_user_me with body a, first await: get_by_email when an
\* email is given.
update_user_me(r, a) ==
    /\ InBody(r, "update_user_me")
    /\ LET existing_user == get_by_email(users, a.patch.email) IN
       req' = IF ~Has(a.patch, "email") THEN Step(r, a, "me_update", None)
              ELSE IF existing_user # None /\ existing_user.id # req[r].cur.id
              THEN Finish(r, a, HTTPException(409, "User with this email already exists"))
              ELSE Step(r, a, "me_update", None)
    /\ UNCHANGED <<users, items, now, issued>>

\* UsersRouter.update_user_me, second await: UserCRUD.update of the caller.
update_user_me_write(r) ==
    user_update_write(r, "me_update", req[r].cur.id, req[r].arg.patch)

\* UsersRouter.read_user_me.
read_user_me(r) ==
    /\ InBody(r, "read_user_me")
    /\ req' = Finish(r, None, Resp(200, "", req[r].cur))
    /\ UNCHANGED <<users, items, now, issued>>

\* UsersRouter.update_password_me with its two checks in the other order.
update_password_me_swapped(r, a) ==
    /\ InBody(r, "update_password_me")
    /\ LET cur == req[r].cur IN
       IF a.current_password = a.new_password
       THEN /\ req' = Finish(r, a, HTTPException(400,
                         "New password cannot be the same as the current one"))
            /\ UNCHANGED users
       ELSE IF ~verify_password(a.current_password, cur.hashed_password)
       THEN /\ req' = Finish(r, a, HTTPException(400, "Incorrect password"))
            /\ UNCHANGED users
       ELSE IF users[cur.id] = NoRow
       THEN /\ req' = Finish(r, a, Unhandled("StaleDataError"))
            /\ UNCHANGED users
       ELSE /\ users' = [users EXCEPT ![cur.id] =
                            updated_row(users[cur.id], [password |-> a.new_password])]
            /\ req' = [Finish(r, a, Resp(200, "Password updated successfully", None))
                          EXCEPT ![r] = Wrote(@)]
    /\ UNCHANGED <<items, now, issued>>

\* UsersRouter.update_password_me with body a: the checks against the
\* resolved principal, then UserCRUD.update with the new password.
update_password_me(r, a) ==
    /\ InBody(r, "update_password_me")
    /\ LET cur == req[r].cur IN
       IF ~verify_password(a.current_password, cur.hashed_password)
       THEN /\ req' = Finish(r, a, HTTPException(400, "Incorrect password"))
            /\ UNCHANGED users
       ELSE IF a.current_password = a.new_password
       THEN /\ req' = Finish(r, a, HTTPException(400,
                         "New password cannot be the same as the current one"))
            /\ UNCHANGED users
       ELSE IF users[cur.id] = NoRow
       THEN /\ req' = Finish(r, a, Unhandled("StaleDataError"))
            /\ UNCHANGED users
       ELSE /\ users' = [users EXCEPT ![cur.id] =
                            updated_row(users[cur.id], [password |-> a.new_password])]
            /\ req' = [Finish(r, a, Resp(200, "Password updated successfully", None))
                          EXCEPT ![r] = Wrote(@)]
    /\ UNCHANGED <<items, now, issued>>

\* LoginRouter.reset_password, second await: UserCRUD.update with
\* UserUpdate(password=new_password).
reset_password_write(r) ==
    /\ req[r].pc = "reset_update"
    /\ LET a == req[r].arg
           id == req[r].tmp.id
       IN IF users[id] = NoRow
          THEN /\ req' = Finish(r, a, Unhandled("StaleDataError"))
               /\ UNCHANGED users
          ELSE /\ users' = [users EXCEPT ![id] =
                               updated_row(users[id], [password |-> a.new_password])]
               /\ req' = [Finish(r, a, Resp(200, "Password updated successfully", None))
                             EXCEPT ![r] = Wrote(@)]
    /\ UNCHANGED <<items, now, issued>>

\* UsersRouter.read_user_by_id with path parameter a.id.
read_user_by_id(r, a) ==
    /\ InBody(r, "read_user_by_id")
    /\ LET user == get_by_id(users, a.id) IN
       req' = IF user = None THEN Finish(r, a, HTTPException(404, "User not found"))
              ELSE IF user.id = req[r].cur.id THEN Finish(r, a, Resp(200, "", user))
              ELSE IF ~req[r].cur.is_superuser
              THEN Finish(r, a, HTTPException(403, "The user doesn't have enough privileges"))
              ELSE Finish(r, a, Resp(200, "", user))
    /\ UNCHANGED <<users, items, now, issued>>

\* UsersRouter.delete_user_me.
\* delete_user_me as delete_user does it: the items of the principal are
\* removed and committed first, then the principal.
delete_user_me_two_commits(r) ==
    /\ InBody(r, "delete_user_me")
    /\ LET cur == req[r].cur
           done == Finish(r, None, Resp(200, "User deleted successfully", None))
       IN IF cur.is_superuser
          THEN /\ req' = Finish(r, None, HTTPException(403,
                            "Super users are not allowed to delete themselves"))
               /\ UNCHANGED <<users, items>>
          ELSE /\ users' = [users EXCEPT ![cur.id] = NoRow]
               /\ items' = remove_by_owner(items, cur.id)
               /\ req' = [done EXCEPT ![r] = Wrote(Wrote(@))]
    /\ UNCHANGED <<now, issued>>

delete_user_me(r) ==
    /\ InBody(r, "delete_user_me")
    /\ LET cur == req[r].cur
           done == Finish(r, None, Resp(200, "User deleted successfully", None))
       IN IF cur.is_superuser
          THEN /\ req' = Finish(r, None, HTTPException(403,
                            "Super users are not allowed to delete themselves"))
               /\ UNCHANGED <<users, items>>
          ELSE IF users[cur.id] = NoRow
          THEN /\ req' = done
               /\ UNCHANGED <<users, items>>
          ELSE /\ users' = [users EXCEPT ![cur.id] = NoRow]
               /\ items' = cascade_items(items, cur.id)
               /\ req' = [done EXCEPT ![r] = Wrote(@)]
    /\ UNCHANGED <<now, issued>>

\* UsersRouter.update_user with path id and body a, first await: get_by_id.
update_user(r, a) ==
    /\ InBody(r, "update_user")
    /\ LET db_user == get_by_id(users, a.id) IN
       req' = IF db_user = None
              THEN Finish(r, a, HTTPException(404,
                       "The user with this id does not exist in the system"))
              ELSE IF Has(a.patch, "email") THEN Step(r, a, "user_email", db_user)
              ELSE Step(r, a, "user_update", db_user)
    /\ UNCHANGED <<users, items, now, issued>>

\* UsersRouter.update_user, second await: get_by_email.
update_user_email(r) ==
    /\ req[r].pc = "user_email"
    /\ LET a == req[r].arg
           existing_user == get_by_email(users, a.patch.email)
       IN req' = IF existing_user # None /\ existing_user.id # a.id
                 THEN Finish(r, a, HTTPException(409, "User with this email already exists"))
                 ELSE Step(r, a, "user_update", req[r].tmp)
    /\ UNCHANGED <<users, items, now, issued>>

\* UsersRouter.update_user, last await: UserCRUD.update.
update_user_write(r) ==
    user_update_write(r, "user_update", req[r].arg.id, req[r].arg.patch)

\* UsersRouter.delete_user without the comparison of the target with the
\* caller.
delete_user_unguarded(r, a) ==
    /\ InBody(r, "delete_user")
    /\ LET user_to_delete == get_by_id(users, a.id) IN
       req' = IF user_to_delete = None
              THEN Finish(r, a, HTTPException(404, "User not found"))
              ELSE Step(r, a, "user_items", user_to_delete)
    /\ UNCHANGED <<users, items, now, issued>>

\* UsersRouter.delete_user with path id a.id, first await: get_by_id.
delete_user(r, a) ==
    /\ InBody(r, "delete_user")
    /\ LET user_to_delete == get_by_id(users, a.id) IN
       req' = IF user_to_delete = None
              THEN Finish(r, a, HTTPException(404, "User not found"))
              ELSE IF user_to_delete.id = req[r].cur.id
              THEN Finish(r, a, HTTPException(403,
                       "Super users are not allowed to delete themselves"))
              ELSE Step(r, a, "user_items", user_to_delete)
    /\ UNCHANGED <<users, items, now, issued>>

\* UsersRouter.delete_user, second await: ItemCRUD.remove_by_owner.
delete_user_items(r) ==
    /\ req[r].pc = "user_items"
    /\ items' = remove_by_owner(items, req[r].arg.id)
    /\ req' = [Step(r, req[r].arg, "user_remove", req[r].tmp) EXCEPT ![r] = Wrote(@)]
    /\ UNCHANGED <<users, now, issued>>

\* UsersRouter.delete_user, last await: UserCRUD.remove.
delete_user_remove(r) ==
    /\ req[r].pc = "user_remove"
    /\ LET a == req[r].arg
           done == Finish(r, a, Resp(200, "User deleted successfully", None))
       IN IF users[a.id] = NoRow
          THEN /\ req' = done
               /\ UNCHANGED <<users, items>>
          ELSE /\ users' = [users EXCEPT ![a.id] = NoRow]
               /\ items' = cascade_items(items, a.id)
               /\ req' = [done EXCEPT ![r] = Wrote(@)]
    /\ UNCHANGED <<now, issued>>

\* UtilsRouter.test_email with query parameter a.email_to.
test_email(r, a) ==
    /\ InBody(r, "test_email")
    /\ req' = [Finish(r, a, Resp(202, "Test email sent", None)) EXCEPT ![r] =
                  Scheduled(@, [task |-> "test_email", to |-> a.email_to])]
    /\ UNCHANGED <<users, items, now, issued>>

\* ------------------------------------------------------------ store states
FIRST_SUPERUSER == Email(1)
FIRST_SUPERUSER_PASSWORD == "pw-one"

\* The row InitialDataGenerator.create_first_superuser writes.
FirstSuperuser ==
    User(1, FIRST_SUPERUSER, TRUE, TRUE, get_password_hash(FIRST_SUPERUSER_PASSWORD))

\* A row UsersRouter.create_user leaves for a regular principal.
Regular(i, active) == User(i, Email(i), active, FALSE, get_password_hash("pw-two"))

\* The user table after InitialDataGenerator.run: the first superuser alone.
FreshUsers == [i \in UserIds |-> IF i = 1 THEN FirstSuperuser ELSE NoRow]

\* User tables the first superuser can have set up with create_user: beside
\* it, each other id is free or a regular principal, active or not.
Stores ==
    {tbl \in [UserIds -> {NoRow, FirstSuperuser}
                           \cup {Regular(i, b) : i \in UserIds, b \in BOOLEAN}] :
        /\ tbl[1] = FirstSuperuser
        /\ \A i \in UserIds \ {1} : tbl[i] = NoRow \/ tbl[i].id = i}

NoItems == [i \in ItemIds |-> NoRow]

\* Item tables the first superuser can have filled with create_item.
SuperuserItems == [ItemIds -> {NoRow} \cup {Item(i, 1, "t1") : i \in ItemIds}]
OwnItems == {itbl \in SuperuserItems : \A i \in ItemIds : itbl[i] = NoRow \/ itbl[i].id = i}

\* ----------------------------------------------------- request parameters
\* The fields a client may set in a UserUpdate body.
Patches ==
    {[is_active |-> b] : b \in BOOLEAN} \cup {[is_superuser |-> b] : b \in BOOLEAN}
        \cup {[email |-> e] : e \in Emails}
\* The fields a client may set in a UserUpdateMe body (<<>>: none).
MePatches == {[email |-> e] : e \in Emails} \cup {<<>>}

\* The request bodies and path parameters of each endpoint.
Args(op) ==
    CASE op = "update_user_me" -> {[patch |-> p] : p \in MePatches}
      [] op = "create_user" ->
            {[email |-> e, password |-> "pw-two", is_active |-> a, is_superuser |-> s] :
                e \in Emails, a \in BOOLEAN, s \in BOOLEAN}
      [] op = "update_user" -> {[id |-> i, patch |-> p] : i \in UserIds, p \in Patches}
      [] op = "register_user" -> {[email |-> e, password |-> "pw-two"] : e \in Emails}
      [] op \in {"delete_user", "read_user_by_id"} -> {[id |-> i] : i \in UserIds}
      [] op = "update_password_me" ->
            {[current_password |-> c, new_password |-> n] : c \in Passwords, n \in Passwords}
      [] op = "test_email" -> {[email_to |-> FIRST_SUPERUSER]}
      [] op = "recover_password_html_content" -> {[email |-> FIRST_SUPERUSER]}
      [] op = "recover_password" -> {[email |-> e] : e \in Emails}
      [] op = "create_item" -> {[title |-> "t1"]}
      [] op \in {"read_item", "delete_item"} -> {[id |-> i] : i \in ItemIds}
      [] op = "update_item" -> {[id |-> i, title |-> t] : i \in ItemIds, t \in Titles}
      [] op = "login_access_token" ->
            {[username |-> e, password |-> p] : e \in Emails, p \in Passwords}
      [] OTHER -> {None}

\* The model has an id left for what the request may create.
Capacity(op) ==
    /\ op = "create_item" => \E i \in ItemIds : items[i] = NoRow
    /\ op \in {"create_user", "register_user"} => \E i \in UserIds : users[i] = NoRow

\* ----------------------------------------------------------- specifications
\* The administration endpoints: one request at a time, starting from the
\* tables after initial data, the first superuser owning some items.
Init ==
    /\ users = FreshUsers
    /\ items \in OwnItems
    /\ now = 0
    /\ issued = {}
    /\ req = [r \in Reqs |-> Idle]

Next ==
    \/ PublicRequest(1, "login_access_token")
    \/ \E a \in Args("login_access_token") : login_access_token(1, a)
    \/ \E op \in StrictOps, t \in Presentable : StrictRequest(1, op, t)
    \/ \E op \in SuperuserOps, t \in Presentable : Capacity(op) /\ SuperuserRequest(1, op, t)
    \/ test_token(1)
    \/ \E a \in Args("update_user_me") : update_user_me(1, a)
    \/ update_user_me_write(1)
    \/ read_user_me(1)
    \/ \E a \in Args("update_password_me") : update_password_me(1, a)
    \/ \E a \in Args("read_user_by_id") : read_user_by_id(1, a)
    \/ delete_user_me(1)
    \/ read_users(1)
    \/ \E a \in Args("create_user") : create_user(1, a)
    \/ create_user_write(1)
    \/ \E a \in Args("update_user") : update_user(1, a)
    \/ update_user_email(1)
    \/ update_user_write(1)
    \/ \E a \in Args("delete_user") : delete_user(1, a)
    \/ delete_user_items(1)
    \/ delete_user_remove(1)
    \/ \E a \in Args("test_email") : test_email(1, a)
    \/ \E a \in Args("recover_password_html_content") : recover_password_html_content(1, a)
    \/ Close(1)

Spec == Init /\ [][Next]_vars

\* Subjects create_access_token is called with: str(user.id), or any other
\* string (an email address).
Subjects == {UuidStr(i) : i \in UserIds} \cup {EmailSub(FIRST_SUPERUSER)}

\* Token lifetime and strict resolution: the clock runs, tokens of every
\* lifetime are issued and presented to endpoints that depend on CurrentUser,
\* while principals log in and delete their accounts.
InitAuth ==
    /\ users \in Stores
    /\ items = NoItems
    /\ now = 0
    /\ issued = {}
    /\ req = [r \in Reqs |-> Idle]

NextAuth ==
    \/ Tick
    \/ \E sub \in Subjects, ttl \in Ttls : IssueToken(sub, ttl)
    \/ PublicRequest(1, "login_access_token")
    \/ \E a \in Args("login_access_token") : login_access_token(1, a)
    \/ \E op \in {"test_token", "delete_user_me"}, t \in Presentable : StrictRequest(1, op, t)
    \/ test_token(1)
    \/ delete_user_me(1)
    \/ Close(1)

SpecAuth == InitAuth /\ [][NextAuth]_vars

\* Optional resolution and the items endpoints: valid, expired, altered and
\* foreign tokens are presented to the endpoints of ItemsRouter.
InitItems ==
    /\ users \in Stores
    /\ items = NoItems
    /\ now = 0
    /\ issued = {}
    /\ req = [r \in Reqs |-> Idle]

NextItems ==
    \/ \E sub \in Subjects, ttl \in {0, TicksPerSecond} : IssueToken(sub, ttl)
    \/ \E op \in OptionalOps, t \in Presentable : Capacity(op) /\ OptionalRequest(1, op, t)
    \/ read_items(1)
    \/ \E a \in Args("create_item") : create_item(1, a)
    \/ \E a \in Args("read_item") : read_item(1, a)
    \/ \E a \in Args("update_item") : update_item(1, a)
    \/ update_item_write(1)
    \/ \E a \in Args("delete_item") : delete_item(1, a)
    \/ delete_item_remove(1)
    \/ Close(1)

SpecItems == InitItems /\ [][NextItems]_vars

\* Requests in flight together: two clients, each holding the access token of
\* a stored principal, call the endpoints that create, change, deactivate and
\* delete principals; every await of a handler is a point where the other
\* request may run.
RaceStrictOps == {"update_user_me", "delete_user_me"}
RaceSuperuserOps == {"create_user", "update_user", "delete_user"}
Held == {t.jwt : t \in issued}

RaceArgs(op) ==
    CASE op = "update_user" ->
            {[id |-> i, patch |-> p] :
                i \in UserIds, p \in {[is_active |-> FALSE]} \cup {[email |-> e] : e \in Emails}}
      [] op = "update_user_me" -> {[patch |-> [email |-> e]] : e \in Emails}
      [] op = "create_user" ->
            {[email |-> e, password |-> "pw-two", is_active |-> TRUE, is_superuser |-> FALSE] :
                e \in Emails}
      [] OTHER -> Args(op)

InitRace ==
    /\ users \in Stores
    /\ items = NoItems
    /\ now = 0
    /\ issued = {}
    /\ req = [r \in Reqs |-> Idle]

NextRace ==
    \/ \E i \in UserIds : IssueToken(UuidStr(i), AccessTtl)
    \/ \E r \in Reqs :
          \/ Capacity("register_user") /\ PublicRequest(r, "register_user")
          \/ \E op \in RaceStrictOps, t \in Held : StrictRequest(r, op, t)
          \/ \E op \in RaceSuperuserOps, t \in Held : Capacity(op) /\ SuperuserRequest(r, op, t)
          \/ \E a \in RaceArgs("register_user") : register_user(r, a)
          \/ register_user_write(r)
          \/ \E a \in RaceArgs("update_user_me") : update_user_me(r, a)
          \/ update_user_me_write(r)
          \/ delete_user_me(r)
          \/ \E a \in RaceArgs("create_user") : create_user(r, a)
          \/ create_user_write(r)
          \/ \E a \in RaceArgs("update_user") : update_user(r, a)
          \/ update_user_email(r)
          \/ update_user_write(r)
          \/ \E a \in RaceArgs("delete_user") : delete_user(r, a)
          \/ delete_user_items(r)
          \/ delete_user_remove(r)
          \/ Close(r)

SpecRace == InitRace /\ [][NextRace]_vars

\* The access token login_access_token gives principal i.
LoginToken(i) == create_access_token(UuidStr(i), AccessTtl, now)

\* The bodies of the four endpoints that write an email.
EmailArgs(op) ==
    CASE op = "update_user" ->
            {[id |-> i, patch |-> [email |-> e]] : i \in UserIds, e \in Emails}
      [] OTHER -> RaceArgs(op)

\* Email writers in flight together: register_user, create_user,
\* update_user_me and update_user, two at a time, each lookup and each write
\* a step of its own.
NextEmailRace ==
    \E r \in Reqs :
        \/ Capacity("register_user") /\ PublicRequest(r, "register_user")
        \/ \E i \in UserIds : StrictRequest(r, "update_user_me", LoginToken(i))
        \/ \E op \in {"create_user", "update_user"}, i \in UserIds :
              Capacity(op) /\ SuperuserRequest(r, op, LoginToken(i))
        \/ \E a \in EmailArgs("register_user") : register_user(r, a)
        \/ register_user_write(r)
        \/ \E a \in EmailArgs("update_user_me") : update_user_me(r, a)
        \/ update_user_me_write(r)
        \/ \E a \in EmailArgs("create_user") : create_user(r, a)
        \/ create_user_write(r)
        \/ \E a \in EmailArgs("update_user") : update_user(r, a)
        \/ update_user_email(r)
        \/ update_user_write(r)
        \/ Close(r)

SpecEmailRace == InitRace /\ [][NextEmailRace]_vars

\* Item tables with every id in use, each item owned by a stored principal.
OwnedItems(tbl) ==
    {itbl \in [ItemIds -> {Item(i, o, "t1") : i \in ItemIds, o \in UserIds}] :
        \A i \in ItemIds : itbl[i].id = i /\ tbl[itbl[i].owner_id] # NoRow}

\* Deleting principals that own items: delete_user and delete_user_me, while
\* principals go on creating items.
InitDelete ==
    /\ users \in Stores
    /\ items \in OwnedItems(users)
    /\ now = 0
    /\ issued = {}
    /\ req = [r \in Reqs |-> Idle]

NextDelete ==
    \E r \in Reqs :
        \/ \E i \in UserIds : StrictRequest(r, "delete_user_me", LoginToken(i))
        \/ \E i \in UserIds : SuperuserRequest(r, "delete_user", LoginToken(i))
        \/ \E i \in UserIds :
              Capacity("create_item") /\ OptionalRequest(r, "create_item", LoginToken(i))
        \/ delete_user_me(r)
        \/ \E a \in Args("delete_user") : delete_user(r, a)
        \/ delete_user_items(r)
        \/ delete_user_remove(r)
        \/ \E a \in Args("create_item") : create_item(r, a)
        \/ Close(r)

SpecDelete == InitDelete /\ [][NextDelete]_vars

\* Password recovery: reset tokens are mailed and presented, unaltered or
\* altered, early and late, with access tokens and foreign tokens among them,
\* also after the principal they were mailed to deleted its account.
ResetArgs == {[token |-> t, new_password |-> p] : t \in Presentable \ {NoToken}, p \in Passwords}

InitReset ==
    /\ users \in Stores
    /\ items = NoItems
    /\ now = 0
    /\ issued = {}
    /\ req = [r \in Reqs |-> Idle]

NextReset ==
    \/ Tick
    \/ Sleep
    \/ TickLate
    \/ \E op \in {"login_access_token", "recover_password", "reset_password"} :
          PublicRequest(1, op)
    \/ \E a \in Args("login_access_token") : login_access_token(1, a)
    \/ \E a \in Args("recover_password") : recover_password(1, a)
    \/ send_reset_password_email(1)
    \/ \E a \in ResetArgs : reset_password(1, a)
    \/ reset_password_write(1)
    \/ \E i \in UserIds : StrictRequest(1, "delete_user_me", LoginToken(i))
    \/ delete_user_me(1)
    \/ Close(1)

SpecReset == InitReset /\ [][NextReset]_vars

\* Everything that writes a principal, one request at a time: password
\* change, password reset, the administrator's update with and without a
\* password, profile update, creation, registration, deletion and login.
PasswordArgs(op) ==
    CASE op = "update_user" ->
            {[id |-> i, patch |-> p] :
                i \in UserIds,
                p \in {[is_active |-> FALSE]} \cup {[email |-> e] : e \in Emails}
                        \cup {[password |-> w] : w \in Passwords}}
      [] op = "update_user_me" -> {[patch |-> [email |-> e]] : e \in Emails}
      [] op = "create_user" ->
            {[email |-> e, password |-> "pw-two", is_active |-> TRUE, is_superuser |-> FALSE] :
                e \in Emails}
      [] op = "register_user" -> {[email |-> e, password |-> "pw-one"] : e \in Emails}
      [] op = "reset_password" ->
            {[token |-> x.jwt, new_password |-> w] : x \in issued, w \in Passwords}
      [] OTHER -> Args(op)

InitPassword ==
    /\ users \in Stores
    /\ items = NoItems
    /\ now = 0
    /\ issued = {}
    /\ req = [r \in Reqs |-> Idle]

NextPassword ==
    \/ \E op \in PublicOps : Capacity(op) /\ PublicRequest(1, op)
    \/ \E op \in {"update_user_me", "update_password_me", "delete_user_me"}, i \in UserIds :
          StrictRequest(1, op, LoginToken(i))
    \/ \E op \in {"create_user", "update_user", "delete_user"}, i \in UserIds :
          Capacity(op) /\ SuperuserRequest(1, op, LoginToken(i))
    \/ \E a \in PasswordArgs("login_access_token") : login_access_token(1, a)
    \/ \E a \in PasswordArgs("recover_password") : recover_password(1, a)
    \/ send_reset_password_email(1)
    \/ \E a \in PasswordArgs("reset_password") : reset_password(1, a)
    \/ reset_password_write(1)
    \/ \E a \in PasswordArgs("register_user") : register_user(1, a)
    \/ register_user_write(1)
    \/ \E a \in PasswordArgs("update_user_me") : update_user_me(1, a)
    \/ update_user_me_write(1)
    \/ \E a \in PasswordArgs("update_password_me") : update_password_me(1, a)
    \/ delete_user_me(1)
    \/ \E a \in PasswordArgs("create_user") : create_user(1, a)
    \/ create_user_write(1)
    \/ \E a \in PasswordArgs("update_user") : update_user(1, a)
    \/ update_user_email(1)
    \/ update_user_write(1)
    \/ \E a \in PasswordArgs("delete_user") : delete_user(1, a)
    \/ delete_user_items(1)
    \/ delete_user_remove(1)
    \/ Close(1)

SpecPassword == InitPassword /\ [][NextPassword]_vars

\* Access tokens and password changes: a client holds the access token of
\* a stored, active principal from a login at the start; passwords are then
\* changed by update_password_me, by the administrator's update_user and by
\* reset_password, principals are deactivated, the clock runs, and the token
\* is presented again.
StatelessArgs(op) ==
    CASE op = "update_user" ->
            {[id |-> i, patch |-> p] :
                i \in UserIds, p \in {[is_active |-> FALSE]} \cup {[password |-> w] : w \in Passwords}}
      [] op = "reset_password" ->
            {[token |-> generate_password_reset_token(e, now), new_password |-> w] :
                e \in Emails, w \in Passwords}
      [] OTHER -> Args(op)

InitStateless ==
    /\ users \in Stores
    /\ items = NoItems
    /\ now = 0
    /\ issued \in {Issue(create_access_token(UuidStr(i), AccessTtl, 0), AccessTtl) :
                      i \in {j \in UserIds : users[j] # NoRow /\ users[j].is_active}}
    /\ req = [r \in Reqs |-> Idle]

NextStateless ==
    \/ Tick
    \/ \E op \in {"test_token", "update_password_me"}, t \in Held : StrictRequest(1, op, t)
    \/ SuperuserRequest(1, "update_user", LoginToken(1))
    \/ PublicRequest(1, "reset_password")
    \/ test_token(1)
    \/ \E a \in StatelessArgs("update_password_me") : update_password_me(1, a)
    \/ \E a \in StatelessArgs("update_user") : update_user(1, a)
    \/ update_user_write(1)
    \/ \E a \in StatelessArgs("reset_password") : reset_password(1, a)
    \/ reset_password_write(1)
    \/ Close(1)

SpecStateless == InitStateless /\ [][NextStateless]_vars

\* Both kinds of token in use: the token last issued, by login or by the
\* recovery email, is presented as bearer credential and to reset_password.
NextTokenKinds ==
    \/ \E op \in {"login_access_token", "recover_password", "reset_password"} :
          PublicRequest(1, op)
    \/ \E t \in Held : StrictRequest(1, "test_token", t)
    \/ \E t \in Held : OptionalRequest(1, "read_items", t)
    \/ \E a \in Args("login_access_token") : login_access_token(1, a)
    \/ \E a \in Args("recover_password") : recover_password(1, a)
    \/ send_reset_password_email(1)
    \/ \E a \in ResetArgs : reset_password(1, a)
    \/ reset_password_write(1)
    \/ test_token(1)
    \/ read_items(1)
    \/ Close(1)

SpecTokenKinds == InitReset /\ [][NextTokenKinds]_vars

\* What callers without superuser rights can do, one request at a time, when
\* the private router is not mounted. Their JSON bodies may carry fields the
\* request models do not declare; validation drops them.
UserUpdateMe_open(body) == body

\* UserUpdateMe: of a body only email is kept (full_name is not modelled).
UserUpdateMe(body) == [f \in (DOMAIN body) \cap {"email"} |-> body[f]]

\* UserRegister: of a body only email and password are kept.
UserRegister(body) == [f \in (DOMAIN body) \cap {"email", "password"} |-> body[f]]

\* The flag fields a client may add to a body.
ForgedFlags == {<<>>, [is_superuser |-> TRUE], [is_active |-> FALSE]}

UnprivilegedArgs(op) ==
    CASE op = "update_user_me" ->
            {[body |-> b @@ f, patch |-> UserUpdateMe(b @@ f)] :
                b \in MePatches, f \in ForgedFlags}
      [] op = "register_user" ->
            {UserRegister([email |-> e, password |-> "pw-one"] @@ f) :
                e \in Emails, f \in ForgedFlags}
      [] OTHER -> PasswordArgs(op)

\* The principals whose access token a caller without superuser rights holds.
Unprivileged == {i \in UserIds : users[i] = NoRow \/ ~users[i].is_superuser}

InitUnprivileged ==
    /\ users \in Stores
    /\ items = NoItems
    /\ now = 0
    /\ issued = {}
    /\ req = [r \in Reqs |-> Idle]

NextUnprivileged ==
    \/ \E op \in PublicOps : Capacity(op) /\ PublicRequest(1, op)
    \/ \E op \in {"update_user_me", "update_password_me", "delete_user_me"},
          i \in Unprivileged : StrictRequest(1, op, LoginToken(i))
    \/ \E op \in {"create_user", "update_user", "delete_user"}, i \in Unprivileged :
          SuperuserRequest(1, op, LoginToken(i))
    \/ \E op \in {"create_item", "delete_item"}, t \in {LoginToken(i) : i \in Unprivileged} \cup {NoToken} :
          Capacity(op) /\ OptionalRequest(1, op, t)
    \/ \E a \in UnprivilegedArgs("login_access_token") : login_access_token(1, a)
    \/ \E a \in UnprivilegedArgs("recover_password") : recover_password(1, a)
    \/ send_reset_password_email(1)
    \/ \E a \in UnprivilegedArgs("reset_password") : reset_password(1, a)
    \/ reset_password_write(1)
    \/ \E a \in UnprivilegedArgs("register_user") : register_user(1, a)
    \/ register_user_write(1)
    \/ \E a \in UnprivilegedArgs("update_user_me") : update_user_me(1, a)
    \/ update_user_me_write(1)
    \/ \E a \in UnprivilegedArgs("update_password_me") : update_password_me(1, a)
    \/ delete_user_me(1)
    \/ \E a \in UnprivilegedArgs("create_item") : create_item(1, a)
    \/ \E a \in UnprivilegedArgs("delete_item") : delete_item(1, a)
    \/ delete_item_remove(1)
    \/ Close(1)

SpecUnprivileged == InitUnprivileged /\ [][NextUnprivileged]_vars

\* ------------------------------------------------------------- properties
CredentialsError == HTTPException(403, "Could not validate credentials")
NotAuthenticated == HTTPException(401, "Not authenticated")
NotEnoughPermissions == HTTPException(403, "Not enough permissions")
NotEnoughPrivileges == HTTPException(403, "The user doesn't have enough privileges")

\* Slot r takes a request in: this step resolves its dependencies against
\* the clock and the user table of the state it starts from.
Arrives(r) == req[r].pc = "idle" /\ req'[r].pc # "idle"

\* The signature of token verifies and its expiration is after t.
Decodable(token, t) == token.kind = "jwt" /\ token.sig = "ok" /\ token.exp > t

\* The subject claim of token is the identifier of principal p.
Names(token, p) == token.sub = UuidStr(p)

\* A request of slot r to an endpoint of kind ops was answered by a strict
\* dependency with a token the client holds.
Presented(r, tok) == req'[r].op \in StrictOps /\ req'[r].token = tok.jwt

\* C1 as the specification states it: strict resolution of a token issued
\* for a stored, active principal P returns P whenever the token's ttl has not
\* elapsed (now < issue time + ttl) and P is still stored.
C1_TtlNotElapsed ==
    [][\A tok \in issued, p \in UserIds :
          (/\ Arrives(1) /\ Presented(1, tok) /\ Names(tok.jwt, p)
           /\ users[p] # NoRow /\ users[p].is_active
           /\ now < tok.iat + tok.ttl)
          => (req'[1].pc = "body" /\ req'[1].cur = users[p])]_vars

\* C1, amended: strict resolution of a token issued for a stored, active
\* principal P returns exactly P whenever the clock is before the token's
\* "exp" claim, which is issue time + ttl cut down to a whole second, and P
\* is still stored.
C1_BeforeExpClaim ==
    [][\A tok \in issued, p \in UserIds :
          (/\ Arrives(1) /\ Presented(1, tok) /\ Names(tok.jwt, p)
           /\ users[p] # NoRow /\ users[p].is_active
           /\ now < Seconds(tok.iat + tok.ttl))
          => (req'[1].pc = "body" /\ req'[1].cur = users[p])]_vars

\* test_token answered with principal P to a token issued for P some time
\* before, its ttl still running.
C1_Witness ==
    \E tok \in issued, p \in UserIds :
        /\ req[1].op = "test_token" /\ req[1].pc = "done"
        /\ req[1].token = tok.jwt /\ Names(tok.jwt, p)
        /\ tok.iat < now /\ now < Seconds(tok.iat + tok.ttl)
        /\ req[1].resp = Resp(200, "", users[p])

C3_ExpiredRefused ==
    [][\A tok \in issued :
          (Arrives(1) /\ Presented(1, tok) /\ now >= tok.iat + tok.ttl)
          => /\ req'[1].pc = "done"
             /\ req'[1].resp = CredentialsError
             /\ req'[1].lookups = 0]_vars

\* A token issued with ttl zero or negative for a stored, active principal
\* was refused at a later time.
C3_Witness ==
    \E tok \in issued, p \in UserIds :
        /\ tok.ttl <= 0 /\ tok.iat < now /\ Names(tok.jwt, p)
        /\ users[p] # NoRow /\ users[p].is_active
        /\ req[1].op = "test_token" /\ req[1].pc = "done" /\ req[1].token = tok.jwt
        /\ req[1].resp = CredentialsError

ItemOps == {"read_item", "update_item", "delete_item"}

\* C4: for an authenticated caller and a stored item, read_item, update_item
\* and delete_item go through if and only if the caller is a superuser or
\* owns the item; otherwise the answer is 403 'Not enough permissions' and the
\* item table is unchanged.  A permitted update or delete then changes or
\* removes exactly that item.
C4_OwnerOrSuperuser ==
    [][/\ (/\ req[1].pc = "body" /\ req[1].op \in ItemOps /\ req[1].cur # None
           /\ req'[1].pc # "body" /\ items[req'[1].arg.id] # NoRow)
          => LET cur == req[1].cur
                 item == items[req'[1].arg.id]
             IN IF cur.is_superuser \/ item.owner_id = cur.id
                THEN /\ req[1].op = "read_item" => req'[1].resp = Resp(200, "", item)
                     /\ req[1].op = "update_item" => req'[1].pc = "item_update"
                     /\ req[1].op = "delete_item" => req'[1].pc = "item_remove"
                     /\ items' = items
                ELSE /\ req'[1].pc = "done"
                     /\ req'[1].resp = NotEnoughPermissions
                     /\ req'[1].writes = 0
                     /\ items' = items
       /\ (req[1].pc = "item_update" /\ req'[1].pc = "done")
          => /\ items' = [items EXCEPT ![req[1].arg.id].title = req[1].arg.title]
             /\ req'[1].resp = Resp(200, "", items'[req[1].arg.id])
       /\ (req[1].pc = "item_remove" /\ req'[1].pc = "done")
          => /\ items' = [items EXCEPT ![req[1].arg.id] = NoRow]
             /\ req'[1].resp.status = 200]_vars

\* An active caller who neither owns the stored item nor is a superuser was
\* refused its update with 403.
C4_Witness ==
    /\ req[1].op = "update_item" /\ req[1].pc = "done"
    /\ req[1].cur # None /\ ~req[1].cur.is_superuser
    /\ items[req[1].arg.id] # NoRow
    /\ items[req[1].arg.id].owner_id # req[1].cur.id
    /\ items[req[1].arg.id].title # req[1].arg.title
    /\ req[1].resp = NotEnoughPermissions

\* What an items endpoint answers to a request without credentials.
AnonymousResp(op) ==
    IF op = "read_items" THEN Resp(200, "", [data |-> {}, count |-> 0])
    ELSE NotAuthenticated

\* The token of slot r decodes and names a stored principal that is inactive
\* (the clock stands still under SpecItems, so what decodes now decoded when
\* the request came in).
InactiveCaller(r) ==
    /\ Decodable(req[r].token, now) /\ req[r].token.sub.form = "uuid"
    /\ users[req[r].token.sub.uuid] # NoRow
    /\ ~users[req[r].token.sub.uuid].is_active

C6_NeverRaises ==
    [][(Arrives(1) /\ req'[1].op \in OptionalOps)
          => (req'[1].pc = "body" /\ req'[1].resp = None)]_vars

TamperedOrExpired(r) ==
    /\ req[r].token.kind = "jwt"
    /\ req[r].token.sig # "ok" \/ req[r].token.exp <= now

Guard(op, token) ==
    IF op \in SuperuserOps THEN CurrentSuperuser(token, now, users)
    ELSE CurrentUser(token, now, users)

\* C9: when the guard of a CurrentUser or CurrentSuperuser endpoint fails,
\* the request is answered with the guard's error by the very step that takes
\* it in: neither table changes, the request writes nothing and schedules no
\* email, and nothing but the end of the request follows.
C9_GuardBeforeBody ==
    [][/\ (/\ Arrives(1) /\ req'[1].op \in StrictOps \cup SuperuserOps
           /\ Guard(req'[1].op, req'[1].token).raises)
          => /\ req'[1].pc = "done"
             /\ req'[1].resp = Guard(req'[1].op, req'[1].token).exc
             /\ req'[1].writes = 0 /\ req'[1].tasks = {}
             /\ users' = users /\ items' = items
       /\ req[1].pc = "done"
          => /\ req'[1] = req[1] \/ req'[1] = Idle
             /\ users' = users /\ items' = items]_vars

\* create_user, asked by a stored, active principal that is no superuser,
\* was refused without a write or an email task.
C9_Witness ==
    /\ req[1].op = "create_user" /\ req[1].pc = "done"
    /\ req[1].token.kind = "jwt" /\ req[1].token.sub.form = "uuid"
    /\ users[req[1].token.sub.uuid] # NoRow
    /\ req[1].resp = NotEnoughPrivileges
    /\ req[1].writes = 0 /\ req[1].tasks = {}

\* A request to a superuser endpoint that got anywhere beyond its guard (it
\* runs, wrote, scheduled an email or was answered 2xx) has a superuser as
\* its resolved principal.
SuperuserHandled(r) ==
    (/\ req[r].op \in SuperuserOps
     /\ \/ req[r].pc # "done"
        \/ req[r].writes > 0
        \/ req[r].tasks # {}
        \/ req[r].resp.status \in 200..299)
    => (req[r].cur # None /\ req[r].cur.is_superuser)

\* C10: the superuser guard hands on the very principal strict resolution
\* gave it if and only if that principal's is_superuser flag is true, and
\* fails with 403 'The user doesn't have enough privileges' otherwise; so
\* read_users, create_user, update_user, delete_user, test_email and
\* recover_password_html_content run, write, send email and answer 2xx only
\* for a superuser.
C10_SuperuserOnly ==
    [][/\ (/\ Arrives(1) /\ req'[1].op \in SuperuserOps
           /\ ~CurrentUser(req'[1].token, now, users).raises)
          => LET current_user == CurrentUser(req'[1].token, now, users).value
             IN IF current_user.is_superuser
                THEN req'[1].pc = "body" /\ req'[1].cur = current_user
                ELSE req'[1].pc = "done" /\ req'[1].resp = NotEnoughPrivileges
       /\ SuperuserHandled(1)']_vars

\* read_users, asked by a stored principal that is no superuser, was refused
\* with 403.
C10_Witness ==
    /\ req[1].op = "read_users" /\ req[1].pc = "done"
    /\ req[1].token.kind = "jwt" /\ req[1].token.sub.form = "uuid"
    /\ users[req[1].token.sub.uuid] # NoRow
    /\ ~users[req[1].token.sub.uuid].is_superuser
    /\ req[1].resp = NotEnoughPrivileges

SelfDeleteRefused ==
    HTTPException(403, "Super users are not allowed to delete themselves")

\* C11: delete_user_me called by a superuser, and delete_user aimed at the
\* caller's own id, answer 403 'Super users are not allowed to delete
\* themselves' and leave both tables as they are; no step of a request
\* resolved to a superuser removes that superuser's row; delete_user_me called
\* by a principal that is no superuser removes the caller's row.
C11_NoSelfDelete ==
    [][/\ (InBody(1, "delete_user_me") /\ req'[1].pc # "body")
          => IF req[1].cur.is_superuser
             THEN /\ req'[1].pc = "done" /\ req'[1].resp = SelfDeleteRefused
                  /\ users' = users /\ items' = items
             ELSE /\ req'[1].pc = "done" /\ req'[1].resp.status = 200
                  /\ users'[req[1].cur.id] = NoRow
       /\ (InBody(1, "delete_user") /\ req'[1].pc # "body"
              /\ req'[1].arg.id = req[1].cur.id)
          => /\ req'[1].pc = "done" /\ req'[1].resp = SelfDeleteRefused
             /\ users' = users /\ items' = items
       /\ (req[1].cur # None /\ req[1].cur.is_superuser /\ users[req[1].cur.id] # NoRow)
          => users'[req[1].cur.id] # NoRow]_vars

\* delete_user, aimed by a superuser at its own id, was refused and the
\* superuser is still stored.
C11_Witness ==
    /\ req[1].op = "delete_user" /\ req[1].pc = "done"
    /\ req[1].cur # None /\ req[1].cur.is_superuser
    /\ req[1].arg.id = req[1].cur.id
    /\ req[1].resp = SelfDeleteRefused
    /\ users[req[1].cur.id] = req[1].cur

\* Slot r is inside a handler that runs on behalf of a resolved principal.
Handling(r) == req[r].pc \notin {"idle", "done"} /\ req[r].cur # None

\* C12: whenever a handler behind the strict guard takes a step, store writes
\* included, the principal its dependency resolved is stored and active,
\* whatever requests that delete or deactivate principals do meanwhile.
C12_PrincipalLive ==
    [][\A r \in Reqs :
          (Handling(r) /\ req'[r] # req[r])
          => /\ users[req[r].cur.id] # NoRow
             /\ users[req[r].cur.id].is_active]_vars

\* C13: in every reachable state no two stored principals have the same
\* email, however the lookups and writes of concurrent register_user,
\* create_user, update_user_me and update_user requests interleave.
C13_UniqueEmail ==
    \A i, j \in UserIds :
        (i # j /\ users[i] # NoRow /\ users[j] # NoRow) => users[i].email # users[j].email

\* A register_user and a create_user request passed their lookups for the
\* same free email; the first wrote its row, the write of the second was
\* refused by the index.
C13_Witness ==
    /\ req[1].op = "register_user"
    /\ req[2].op = "create_user"
    /\ req[1].pc = "done" /\ req[1].writes = 1 /\ req[1].resp.status \in {200, 201}
    /\ req[2].pc = "done" /\ req[2].writes = 0
    /\ req[2].resp = Unhandled("IntegrityError")
    /\ \E i \in UserIds : users[i] # NoRow /\ users[i].email = req[2].arg.email

\* Slot r takes a step of its handler.
Steps(r) == req'[r] # req[r]

\* Slot r is answered with this status, having written nothing and
\* scheduled no email, and the user table is as before.
RefusedWith(r, status) ==
    /\ req'[r].pc = "done" /\ req'[r].resp.status = status
    /\ req'[r].writes = 0 /\ req'[r].tasks = {}
    /\ users' = users

EmailExists == HTTPException(409, "User with this email already exists")

\* C14: create_user and register_user with an email some stored principal
\* has are answered 400; update_user_me and update_user setting the email of
\* another stored principal are answered 409 'User with this email already
\* exists'; in each case no row is created or changed and no email task is
\* scheduled.  An update that sets a principal's email to the email it has
\* passes the check and is written with 200.
C14_DuplicateEmailRefused ==
    [][\A r \in Reqs :
        /\ ((InBody(r, "create_user") \/ InBody(r, "register_user")) /\ Steps(r)
               /\ ~EmailFree(users, req'[r].arg.email, 0))
           => RefusedWith(r, 400)
        /\ (InBody(r, "update_user_me") /\ Steps(r) /\ Has(req'[r].arg.patch, "email")
               /\ ~EmailFree(users, req'[r].arg.patch.email, req[r].cur.id))
           => (RefusedWith(r, 409) /\ req'[r].resp = EmailExists)
        /\ (req[r].pc = "user_email" /\ Steps(r)
               /\ ~EmailFree(users, req[r].arg.patch.email, req[r].arg.id))
           => (RefusedWith(r, 409) /\ req'[r].resp = EmailExists)
        /\ (InBody(r, "update_user_me") /\ Steps(r) /\ Has(req'[r].arg.patch, "email")
               /\ users[req[r].cur.id] # NoRow
               /\ users[req[r].cur.id].email = req'[r].arg.patch.email)
           => req'[r].pc = "me_update"
        /\ (req[r].pc = "user_email" /\ Steps(r) /\ users[req[r].arg.id] # NoRow
               /\ users[req[r].arg.id].email = req[r].arg.patch.email)
           => req'[r].pc = "user_update"
        /\ (req[r].pc \in {"me_update", "user_update"} /\ Steps(r)
               /\ Has(req[r].arg.patch, "email")
               /\ LET id == IF req[r].pc = "me_update" THEN req[r].cur.id ELSE req[r].arg.id
                  IN users[id] # NoRow /\ users[id].email = req[r].arg.patch.email)
           => (req'[r].resp.status = 200 /\ req'[r].writes = 1)]_vars

\* update_user asked to give principal 2 the email of principal 1 and was
\* answered 409; both rows are as they were.
C14_Witness ==
    /\ req[1].op = "update_user" /\ req[1].pc = "done"
    /\ req[1].resp = EmailExists
    /\ req[1].arg.id = 2 /\ req[1].arg.patch = [email |-> Email(1)]
    /\ req[1].writes = 0 /\ req[1].tasks = {}
    /\ users[1] # NoRow /\ users[1].email = Email(1)
    /\ users[2] # NoRow /\ users[2].email = Email(2)

\* Item table itbl holds no item of this owner.
NoItemsOf(itbl, owner_id) ==
    \A i \in ItemIds : itbl[i] = NoRow \/ itbl[i].owner_id # owner_id

\* Every stored item has a stored owner.
OwnersStored == \A i \in ItemIds : items[i] = NoRow \/ users[items[i].owner_id] # NoRow

\* C15: when delete_user or delete_user_me has removed a principal, no item
\* with that owner_id is stored, then and ever after; delete_user removes
\* the target's items (remove_by_owner) in a step before the one that
\* removes the user row.
C15_ItemsGoWithOwner ==
    [][/\ \A r \in Reqs :
            /\ (InBody(r, "delete_user_me") /\ Steps(r) /\ req'[r].resp.status = 200)
               => /\ users'[req[r].cur.id] = NoRow
                  /\ NoItemsOf(items', req[r].cur.id)
            /\ (req[r].pc = "user_remove" /\ Steps(r) /\ req'[r].resp.status = 200)
               => /\ users'[req[r].arg.id] = NoRow
                  /\ NoItemsOf(items', req[r].arg.id)
            /\ (req[r].pc = "user_items" /\ Steps(r))
               => /\ users' = users
                  /\ NoItemsOf(items', req[r].arg.id)
                  /\ req'[r].pc = "user_remove"
            /\ (req[r].op = "delete_user" /\ Steps(r) /\ users' # users)
               => req[r].pc = "user_remove"
       /\ OwnersStored']_vars

\* delete_user removed principal 2 in two writes, items first; no item is
\* left although every item id was in use at the start.
C15_Witness ==
    /\ req[1].op = "delete_user" /\ req[1].pc = "done"
    /\ req[1].resp = Resp(200, "User deleted successfully", None)
    /\ req[1].arg.id = 2 /\ req[1].writes = 2
    /\ users[2] = NoRow
    /\ items = NoItems

LoginRefused == HTTPException(400, "Incorrect email or password")

\* C16: login_access_token answers with a token exactly when a stored
\* principal has the email, the password verifies against its hash and it is
\* active; the token's subject is that principal's id and its expiry is
\* ACCESS_TOKEN_EXPIRE_MINUTES after now.  An unknown email (for which no
\* password is verified) and a wrong password are both answered 400
\* 'Incorrect email or password', an inactive principal with the right
\* password 400 'Inactive user', and a refused login hands out no token.
C16_LoginIssuesToken ==
    [][(InBody(1, "login_access_token") /\ Steps(1))
       => LET a == req'[1].arg
              resp == req'[1].resp
              ids == {i \in UserIds : users[i] # NoRow /\ users[i].email = a.username}
          IN /\ req'[1].pc = "done"
             /\ users' = users
             /\ IF ids = {}
                THEN /\ resp = LoginRefused
                     /\ req'[1].tmp.verifications = 0
                     /\ issued' = issued
                ELSE \E i \in ids :
                     IF users[i].hashed_password # get_password_hash(a.password)
                     THEN resp = LoginRefused /\ issued' = issued
                     ELSE IF ~users[i].is_active
                     THEN resp = HTTPException(400, "Inactive user") /\ issued' = issued
                     ELSE /\ resp.status = 200
                          /\ resp.body.access_token =
                                Jwt("ok", UuidStr(i),
                                    Seconds(now + ACCESS_TOKEN_EXPIRE_MINUTES
                                                    * SecondsPerMinute * TicksPerSecond))
                          /\ issued' = {[jwt |-> resp.body.access_token, iat |-> now,
                                         ttl |-> AccessTtl]}]_vars

\* An inactive principal logged in with its password and was refused; no
\* token was handed out.
C16_Witness ==
    /\ req[1].op = "login_access_token" /\ req[1].pc = "done"
    /\ req[1].resp = HTTPException(400, "Inactive user")
    /\ req[1].tmp.verifications = 1
    /\ \E i \in UserIds :
          /\ users[i] # NoRow /\ ~users[i].is_active
          /\ users[i].email = req[1].arg.username
          /\ verify_password(req[1].arg.password, users[i].hashed_password)
    /\ issued = {}

\* The reset tokens a client holds, with their generation times.
ResetTokens == {x \in issued : x.ttl = ResetTtl /\ x.jwt.sub.form = "text"}

\* C17 as stated: verify_password_reset_token gives the email of a token
\* from generate_password_reset_token as long as less than
\* EMAIL_RESET_TOKEN_EXPIRE_HOURS have passed since its generation, None from
\* then on, and None for the token altered.
C17_WithinWindow ==
    \A x \in ResetTokens :
        /\ verify_password_reset_token(x.jwt, now)
             = Returns(IF now < x.iat + ResetTtl
                       THEN [email |-> x.jwt.sub.text] ELSE None, 0)
        /\ verify_password_reset_token(Tamper(x.jwt), now) = Returns(None, 0)

\* C17: verify_password_reset_token gives the email of a token from
\* generate_password_reset_token as long as the clock is before the whole
\* second that generation time plus EMAIL_RESET_TOKEN_EXPIRE_HOURS falls in,
\* None from then on, and None for the token altered, at any time.
C17_UntilExpSecond ==
    \A x \in ResetTokens :
        /\ verify_password_reset_token(x.jwt, now)
             = Returns(IF now < Seconds(x.iat + ResetTtl)
                       THEN [email |-> x.jwt.sub.text] ELSE None, 0)
        /\ verify_password_reset_token(Tamper(x.jwt), now) = Returns(None, 0)

\* A reset token generated between two whole seconds was presented to
\* reset_password less than EMAIL_RESET_TOKEN_EXPIRE_HOURS later, in the
\* second its "exp" falls in, and was refused.
C17_Witness ==
    /\ req[1].op = "reset_password" /\ req[1].pc = "done"
    /\ req[1].resp = HTTPException(400, "Invalid token")
    /\ \E x \in ResetTokens :
          /\ req[1].arg.token = x.jwt
          /\ x.iat % TicksPerSecond # 0
          /\ now < x.iat + ResetTtl
          /\ now >= Seconds(x.iat + ResetTtl)

\* Token verifies at the clock reading now: it is a JWT, signed with the
\* key, and the whole second of its expiry is still ahead.
Verifies(token) ==
    token.kind = "jwt" /\ token.sig = "ok" /\ Seconds(token.exp) > now

\* The ids of the stored principals whose email is the subject of token.
Addressed(token) ==
    {i \in UserIds : users[i] # NoRow /\ token.sub.form = "text"
                       /\ users[i].email = token.sub.text}

HashChanges(i) ==
    /\ users[i] # NoRow /\ users'[i] # NoRow
    /\ users'[i].hashed_password # users[i].hashed_password

\* The step is update_password_me of principal i succeeding, or the write of
\* reset_password for principal i; either stores the hash of the new password.
PasswordFlow(i) ==
    \/ /\ InBody(1, "update_password_me") /\ req[1].cur.id = i
       /\ req'[1].resp.status = 200
       /\ users'[i].hashed_password = get_password_hash(req'[1].arg.new_password)
    \/ /\ req[1].pc = "reset_update" /\ req[1].tmp.id = i
       /\ req'[1].resp.status = 200
       /\ users'[i].hashed_password = get_password_hash(req[1].arg.new_password)

\* The step is the write of update_user for principal i with a password in
\* the body; it stores the hash of that password.
AdminPassword(i) ==
    /\ req[1].pc = "user_update" /\ req[1].arg.id = i
    /\ Has(req[1].arg.patch, "password")
    /\ req'[1].resp.status = 200
    /\ users'[i].hashed_password = get_password_hash(req[1].arg.patch.password)

\* A successful update_password_me or reset_password leaves the hash of the
\* new password in the principal's row.
StoresNewHash ==
    /\ (InBody(1, "update_password_me") /\ Steps(1) /\ req'[1].resp.status = 200)
       => users'[req[1].cur.id].hashed_password = get_password_hash(req'[1].arg.new_password)
    /\ (req[1].pc = "reset_update" /\ Steps(1) /\ req'[1].resp.status = 200)
       => users'[req[1].tmp.id].hashed_password = get_password_hash(req[1].arg.new_password)

\* C19 as stated: the hash of an existing principal changes only in a
\* successful update_password_me or reset_password, which store the hash of
\* the new plaintext; every other operation leaves it as it is.
C19_OnlyPasswordFlows ==
    [][StoresNewHash /\ \A i \in UserIds : HashChanges(i) => PasswordFlow(i)]_vars

\* C19: the hash of an existing principal changes only in a successful
\* update_password_me or reset_password, or in an update_user whose body
\* sets password; each stores the hash of the new plaintext; every other
\* operation leaves it as it is.
C19_PasswordWriters ==
    [][StoresNewHash
       /\ \A i \in UserIds : HashChanges(i) => (PasswordFlow(i) \/ AdminPassword(i))]_vars

\* update_user with a password in its body has replaced the hash of
\* principal 2: the row it loaded held another hash than the row stored now.
C19_Witness ==
    /\ req[1].op = "update_user" /\ req[1].pc = "done" /\ req[1].writes = 1
    /\ req[1].arg.id = 2 /\ Has(req[1].arg.patch, "password")
    /\ users[2] # NoRow
    /\ users[2].hashed_password = get_password_hash(req[1].arg.patch.password)
    /\ req[1].tmp.hashed_password # users[2].hashed_password

\* C20: update_password_me first verifies current_password against the
\* stored hash (400 'Incorrect password'), then refuses a new password equal
\* to the current one (400 'New password cannot be the same as the current
\* one'); a refusal leaves the user table as it is; after success the stored
\* hash verifies the new password and no longer the old one.
C20_PasswordChangeOrder ==
    [][(InBody(1, "update_password_me") /\ Steps(1))
       => LET a == req'[1].arg
              id == req[1].cur.id
              stored == users[id].hashed_password
          IN /\ req'[1].pc = "done"
             /\ IF stored # get_password_hash(a.current_password)
                THEN /\ req'[1].resp = HTTPException(400, "Incorrect password")
                     /\ users' = users
                ELSE IF a.new_password = a.current_password
                THEN /\ req'[1].resp = HTTPException(400,
                                          "New password cannot be the same as the current one")
                     /\ users' = users
                ELSE /\ req'[1].resp.status = 200
                     /\ verify_password(a.new_password, users'[id].hashed_password)
                     /\ ~verify_password(a.current_password, users'[id].hashed_password)
                     /\ \A j \in UserIds \ {id} : users'[j] = users[j]]_vars

\* update_password_me succeeded: the caller's stored hash verifies the new
\* password and not the one it was resolved with.
C20_Witness ==
    /\ req[1].op = "update_password_me" /\ req[1].pc = "done" /\ req[1].writes = 1
    /\ req[1].resp = Resp(200, "Password updated successfully", None)
    /\ verify_password(req[1].arg.current_password, req[1].cur.hashed_password)
    /\ verify_password(req[1].arg.new_password, users[req[1].cur.id].hashed_password)
    /\ ~verify_password(req[1].arg.current_password, users[req[1].cur.id].hashed_password)

\* C21: an access token issued before a password change or reset still
\* resolves in strict mode to the principal it names, as that principal is
\* stored now, whenever the token has not expired and the principal is stored
\* and active.
C21_TokenSurvivesPasswordChange ==
    [][\A tok \in issued, p \in UserIds :
          (/\ Arrives(1) /\ Presented(1, tok) /\ Names(tok.jwt, p)
           /\ tok.jwt.sig = "ok" /\ tok.jwt.exp > now
           /\ users[p] # NoRow /\ users[p].is_active)
          => (req'[1].pc = "body" /\ req'[1].cur = users[p])]_vars

\* test_token answered with the superuser to the token the superuser held
\* from the start, after the superuser's password had been replaced.
C21_Witness ==
    \E tok \in issued :
        /\ req[1].op = "test_token" /\ req[1].pc = "done"
        /\ req[1].token = tok.jwt /\ Names(tok.jwt, 1) /\ tok.iat = 0
        /\ users[1] # NoRow
        /\ users[1].hashed_password # get_password_hash(FIRST_SUPERUSER_PASSWORD)
        /\ req[1].resp = Resp(200, "", users[1])

\* Every item table over the ids, owners and titles of the model.
ItemTables ==
    {itbl \in [ItemIds -> {NoRow} \cup {Item(i, o, t) : i \in ItemIds, o \in UserIds, t \in Titles}] :
        \A i \in ItemIds : itbl[i] = NoRow \/ itbl[i].id = i}

\* Item tables a and b hold the same items of this owner.
SameItemsOf(owner_id, a, b) ==
    \A i \in ItemIds :
        ((a[i] # NoRow /\ a[i].owner_id = owner_id)
            \/ (b[i] # NoRow /\ b[i].owner_id = owner_id))
        => a[i] = b[i]

ResetTask(email) == [task |-> "reset_password", to |-> email]

\* C23: outside the local environment recover_password answers 'If an
\* account with that email exists, a recovery email has been sent.' whether
\* or not a principal has the email, and schedules the reset email exactly
\* when one has; in the local environment an unknown email is answered 404
\* and nothing is scheduled.
C23_SameAnswer ==
    [][(InBody(1, "recover_password") /\ Steps(1))
       => LET known == ~EmailFree(users, req'[1].arg.email, 0) IN
          /\ users' = users
          /\ req'[1].tasks = IF known THEN {ResetTask(req'[1].arg.email)} ELSE {}
          /\ IF ENVIRONMENT # "local"
             THEN req'[1].resp =
                    Resp(200, "If an account with that email exists, a recovery email has been sent.",
                         None)
             ELSE ~known => req'[1].resp.status = 404]_vars

\* The stored principals that are superusers.
Superusers == {i \in UserIds : users[i] # NoRow /\ users[i].is_superuser}

\* C24: the store, which starts with a superuser, never comes to hold no
\* superuser principal, whatever requests are served.
C24_SuperuserRemains == Superusers # {}

MaxWrites(op) == IF op = "delete_user" THEN 2 ELSE 1

C26_OneSession == \A r \in Reqs : req[r].pc # "idle" => req[r].sessions = 1

\* The endpoints that validate one item before acting on it.
ValidatedItemOps == {"read_item", "update_item", "delete_item"}

\* C27: read_item, update_item and delete_item answer by the first check
\* that fails, in this order: no caller, 401 'Not authenticated', whether or
\* not the item is stored; item not stored, 404 'Item not found', also for a
\* caller who owns nothing; caller neither superuser nor owner, 403 'Not
\* enough permissions'. A request that fails leaves the item table as it was;
\* a request that passes all three is not refused.
C27_CheckOrder ==
    [][\A op \in ValidatedItemOps :
          (InBody(1, op) /\ Steps(1))
          => LET cur == req[1].cur
                 row == items[req'[1].arg.id]
                 refused(exc) == /\ req'[1].pc = "done" /\ req'[1].resp = exc
                                 /\ items' = items /\ req'[1].writes = 0
             IN IF cur = None THEN refused(HTTPException(401, "Not authenticated"))
                ELSE IF row = NoRow THEN refused(HTTPException(404, "Item not found"))
                ELSE IF ~cur.is_superuser /\ row.owner_id # cur.id
                THEN refused(HTTPException(403, "Not enough permissions"))
                ELSE req'[1].pc = "done" => req'[1].resp.status = 200]_vars

\* An anonymous delete_item for a stored item was answered 401; the item is
\* still stored.
C27_Witness ==
    /\ req[1].op = "delete_item" /\ req[1].pc = "done" /\ req[1].cur = None
    /\ req[1].resp = HTTPException(401, "Not authenticated")
    /\ items[req[1].arg.id] # NoRow

\* C28: every stored item has an owner_id, and it is the id of a stored
\* principal, also while create_item runs together with delete_user or
\* delete_user_me for its caller.
C28_NoOrphan ==
    \A i \in ItemIds :
        items[i] # NoRow
        => (items[i].owner_id \in UserIds /\ users[items[i].owner_id] # NoRow)

\* A create_item whose caller was resolved and then deleted by the other
\* request failed on the foreign key; nothing was stored for it.
C28_Witness ==
    \E r \in Reqs :
        /\ req[r].op = "create_item" /\ req[r].pc = "done"
        /\ req[r].resp = Unhandled("IntegrityError") /\ req[r].writes = 0
        /\ users[req[r].cur.id] = NoRow
        /\ \E q \in Reqs \ {r} :
              /\ req[q].op \in {"delete_user", "delete_user_me"}
              /\ req[q].pc = "done" /\ req[q].resp.status = 200

\* C29: with the private router not mounted, no request of an anonymous
\* caller or of a principal without superuser rights changes is_superuser or
\* is_active of a stored principal, and every principal such a request
\* creates (register_user) has is_superuser = FALSE and is_active = TRUE.
C29_NoEscalation ==
    [][ENVIRONMENT # "local"
       => \A i \in UserIds :
             /\ (users[i] # NoRow /\ users'[i] # NoRow)
                => /\ users'[i].is_superuser = users[i].is_superuser
                   /\ users'[i].is_active = users[i].is_active
             /\ (users[i] = NoRow /\ users'[i] # NoRow)
                => /\ req[1].op = "register_user"
                   /\ ~users'[i].is_superuser /\ users'[i].is_active]_vars

\* update_user_me whose body also carried is_superuser = true was answered
\* 200 after a write; the caller is still no superuser.
C29_Witness ==
    /\ req[1].op = "update_user_me" /\ req[1].pc = "done"
    /\ req[1].resp.status = 200 /\ req[1].writes = 1
    /\ Has(req[1].arg.body, "is_superuser") /\ Has(req[1].arg.body, "email")
    /\ ~users[req[1].cur.id].is_superuser

\* C30: a token whose subject is an email, presented as bearer credential,
\* resolves to no principal: the strict provider answers 403 'Could not
\* validate credentials', the optional provider yields no caller, neither
\* reads the principal table. A token whose subject is a principal id,
\* presented to reset_password, is refused and no password changes; every
\* password reset_password writes was asked for with an email-subject token.
C30_KindsApart ==
    [][/\ (Arrives(1) /\ req'[1].token.kind = "jwt" /\ req'[1].token.sub.form = "text")
          => /\ req'[1].lookups = 0
             /\ req'[1].op \in StrictOps
                  => (req'[1].pc = "done" /\ req'[1].resp = CredentialsError)
             /\ req'[1].op \in OptionalOps => req'[1].cur = None
       /\ (InBody(1, "reset_password") /\ Steps(1) /\ req'[1].arg.token.kind = "jwt"
             /\ req'[1].arg.token.sub.form = "uuid")
          => /\ users' = users
             /\ req'[1].pc = "done" /\ req'[1].resp.status \in {400, 404}
       /\ (req[1].op = "reset_password" /\ users' # users)
          => req[1].arg.token.sub.form = "text"]_vars

\* reset_password was given the unexpired access token of a stored, active
\* principal and answered 404; the principal's password is as it was.
C30_Witness ==
    /\ req[1].op = "reset_password" /\ req[1].pc = "done"
    /\ req[1].arg.token.kind = "jwt" /\ req[1].arg.token.sub.form = "uuid"
    /\ Verifies(req[1].arg.token)
    /\ req[1].resp.status = 404 /\ req[1].writes = 0
    /\ users[req[1].arg.token.sub.uuid] \in {FirstSuperuser, Regular(2, TRUE)}
    /\ req[1].arg.new_password # "pw-one"

====
